---- MODULE Spec2Model ----
(***************************************************************************)
(* A model of the spoticraft / spotifreak sync supervisor:                 *)
(*   - the per-job state store (state.py: SyncState, load_state),          *)
(*   - the supervisor's scheduler, hot reload and IPC control plane        *)
(*     (supervisor.py: Supervisor).                                        *)
(* Several specifications are defined over one set of variables:           *)
(*   SpecStore  the state store under arbitrary calls, from loaded files,  *)
(*   SpecTrim   the history-trim scenario (begin/complete pairs),          *)
(*   Spec       the supervisor: timer, executor, reload, IPC,              *)
(*   SpecFire, SpecIpc  one fire of a job; the IPC server thread,          *)
(*   SpecInterval, SpecPhase  interval expressions; phase selection,       *)
(*   SpecPres   the presentation engine, fire after fire,                  *)
(*   SpecCache  the shared playlist cache under fires of the jobs,         *)
(*   SpecRace   the reload and the IPC handler as concurrent threads,      *)
(*   SpecStart  run() from construction to the wait loop and shutdown,     *)
(*   SpecAssets the asset endpoints of the web API,                        *)
(*   SpecSeq    sequential selection of one presentation feature,          *)
(*   SpecApply  the remote updates of a presentation fire,                 *)
(*   SpecFeed   the jobs feeding the shared cache across hot reloads,      *)
(*   SpecMirror the fires of a playlist-mirror job with two targets.       *)
(***************************************************************************)
EXTENDS Integers, Sequences, FiniteSets, TLC

VARIABLES
    \* ---- state store (state.py) ----
    data,        \* SyncState.data: the visible keys of the state document
    dirty,       \* SyncState._dirty
    file,        \* the content of the state file at SyncState.path
    savePc,      \* position inside SyncState.save: "idle" or "dumping"
    now,         \* the clock read by _utcnow_iso()
    inFire,      \* TRUE between begin_run and the save that ends a fire
    changed,     \* ghost: data was changed since the last load or completed save
    lastOp,      \* ghost: the last store operation and its outcome
    fileBefore,  \* ghost: the file as it was when the last save was called
    pairs,       \* scenario: number of begin/complete pairs completed
    \* ---- supervisor (supervisor.py) ----
    syncIndex,   \* Supervisor._sync_index: id -> SyncConfig (JobIndex)
    diskConfig,  \* the sync files on disk: id -> SyncConfig
    jobs,        \* the scheduler's job store: id -> trigger and next run time
    instances,   \* the executor's count of submitted, unfinished fires per id
    poolQueue,   \* fires submitted to the thread pool, waiting for the worker
    executing,   \* fires whose _run_sync is executing: id -> count
    dropped,     \* ghost: a fire of id was dropped while its current fire is unfinished
    reloaded,    \* ghost: a reload has read the sync files since their last edit
    edits,       \* number of edits of the sync files so far
    ipcs,        \* number of IPC commands so far
    supOp,       \* ghost: the last reload or IPC command, and its answer
    \* ---- one fire (supervisor.py: _run_sync) ----
    firePc,      \* position inside _run_sync, "idle" between fires
    fireRun,     \* the fire in progress or ended last: run id, path, summary, end
    \* ---- IPC server (supervisor.py: _serve) ----
    ipcAlive,    \* the thread running _serve is alive
    ipcPaused,   \* ghost: ids paused by an IPC pause, not resumed, started or deleted since
    \* ---- interval expressions (supervisor.py: _parse_interval) ----
    expression,  \* the expression handed to _parse_interval, a sequence of characters
    parsed,      \* the outcome of _parse_interval: not called, a total, or ValueError
    \* ---- phase selection (playlist_presentation.py: _determine_phase) ----
    customPhases, \* options.phases.custom: the CustomPhase list
    localNow,    \* now in local time, minutes since midnight
    phaseResult, \* the phase _determine_phase returned, "idle" before the call
    \* ---- presentation engine (playlist_presentation.py: run) ----
    presOptions, \* PlaylistPresentationOptions of the job
    pres,        \* state.data["playlist_presentation"]
    presNow,     \* the clock read by datetime.now() in run
    presFires,   \* number of fires of the job so far
    presLast,    \* ghost: the last fire: its summary, remote calls and feature outcomes
    \* ---- shared playlist cache (supervisor.py: _refresh_shared_playlist_cache) ----
    cacheFiles,  \* the state files of the playlist_cache jobs: id -> mtime and payload
    sharedPlaylistCache, \* Supervisor._shared_playlist_cache
    playlistCacheMtimes, \* Supervisor._playlist_cache_mtimes: id -> mtime seen, 0 = no entry
    cacheClock,  \* the clock of the cache scenario: one tick per fire
    \* ---- reload and IPC handler as concurrent threads (supervisor.py) ----
    jobsLock,    \* Supervisor._jobs_lock: the thread holding it, "none" when free
    reloadPc,    \* position inside _reload_configuration
    reloadNew,   \* its local new_index
    reloadTodo,  \* its local removed, common and added ids not yet handled
    ipcPc,       \* position inside _handle_ipc_command
    ipcReq,      \* its request, and its local `sync` once read from the index
    \* ---- start of the supervisor (supervisor.py: run, _start_ipc_server) ----
    runPc,       \* position inside run()
    hotReload,   \* the hot_reload argument of run()
    socketFile,  \* the file at the IPC socket path: "absent", "stale" or "bound"
    socketEnv,   \* whether the file system lets the path be unlinked and bound
    schedulerRunning, \* BackgroundScheduler.running
    serveThread, \* the thread running _serve: "none", "binding", "listening", "returned"
    startFired,  \* ghost: the ids whose job the scheduler dispatched since run() began
    \* ---- asset endpoints of the web API (web/api.py) ----
    assetDirs,   \* the folders under the assets directory, each a sequence of parts
    assetFiles,  \* the files under the assets directory
    assetReply,  \* ghost: the last request and the status of its response
    uploads,     \* number of requests so far
    \* ---- sequential selection of one feature (playlist_presentation.py: _select_candidate) ----
    seqOptions,  \* the feature's candidates and its selection.dedupe_window
    seqState,    \* the feature state dict: cursor, history, last_value
    seqLast,     \* ghost: the cursor and the recent history the last fire saw, and its value
    seqFires,    \* number of fires so far
    \* ---- the remote updates of a presentation fire (playlist_presentation.py: run, lines 272-349) ----
    applyOptions,\* failure_mode of cover, title and description; whether the features are grouped
    applyDetails,\* features.details: the title and the description recorded as last applied
    applyLast,   \* ghost: the last fire: outcomes, remote calls, summary, whether run() raised
    applyFires,  \* number of fires so far
    \* ---- the jobs that feed the shared playlist cache (supervisor.py: __post_init__, _reload_configuration, _run_sync, _refresh_shared_playlist_cache) ----
    feedDisk,    \* the sync files of the configuration directory
    feedIndex,   \* _sync_index while the feeding of the shared cache is exercised
    feedJobs,    \* the jobs of the scheduler
    feedSyncs,   \* _playlist_cache_syncs: the ids of the syncs whose state files a refresh reads
    feedRan,     \* the ids whose state file has been written by a fire
    feedLast,    \* ghost: the last refresh: the ids considered, the playlist_cache ids of the index
    feedOps,     \* number of edits and fires so far
    \* ---- the fires of a playlist-mirror job (playlist_mirror.py: run, _filter_new_tracks, _sync_target) ----
    mirrorOptions,\* options.deduplicate and options.source.scan_direction
    mirrorSource,\* the track ids _collect_source_tracks returns, in the order of the scan direction
    mirrorCursor,\* state.last_processed_track_id, 0 for None
    mirrorAdds,  \* for each target and track, how many times add_tracks has added the track
    mirrorLast,  \* ghost: the last fire: its status and the tracks it processed
    mirrorOps    \* number of fires and source changes so far

storeVars == <<data, dirty, file, savePc, now, inFire, changed, lastOp, fileBefore, pairs>>
supVars == <<syncIndex, diskConfig, jobs, instances, poolQueue, executing, dropped,
             reloaded, edits, ipcs, supOp>>
fireVars == <<firePc, fireRun>>
ipcVars == <<ipcAlive, ipcPaused>>
intervalVars == <<expression, parsed>>
phaseVars == <<customPhases, localNow, phaseResult>>
presVars == <<presOptions, pres, presNow, presFires, presLast>>
cacheVars == <<cacheFiles, sharedPlaylistCache, playlistCacheMtimes, cacheClock>>
raceVars == <<jobsLock, reloadPc, reloadNew, reloadTodo, ipcPc, ipcReq>>
startVars == <<runPc, hotReload, socketFile, socketEnv, schedulerRunning, serveThread,
               startFired>>
assetVars == <<assetDirs, assetFiles, assetReply, uploads>>
seqVars == <<seqOptions, seqState, seqLast, seqFires>>
applyVars == <<applyOptions, applyDetails, applyLast, applyFires>>
feedVars == <<feedDisk, feedIndex, feedJobs, feedSyncs, feedRan, feedLast, feedOps>>
mirrorVars == <<mirrorOptions, mirrorSource, mirrorCursor, mirrorAdds, mirrorLast, mirrorOps>>
auxVars == <<intervalVars, phaseVars, presVars, cacheVars, raceVars, startVars, assetVars, seqVars, applyVars, feedVars, mirrorVars>>
vars == <<storeVars, supVars, fireVars, ipcVars, auxVars>>

(***************************************************************************)
(* Bounds of the model.                                                    *)
(***************************************************************************)
MaxClock == 3
MaxLoaded == 22
MaxPairs == 25
MaxEdits == 1
MaxIpcs == 1
\* The configuration edits and the IPC commands of one behaviour, together.
MaxOps == 2

(***************************************************************************)
(* Program constants.                                                      *)
(***************************************************************************)
STATE_VERSION == 1
RUN_HISTORY_LIMIT == 20

(***************************************************************************)
(* State store: values.                                                    *)
(***************************************************************************)
\* A RunRecord.  completed_at = 0, error = "none", details = "none" stand for
\* an absent key.
RunRecord(id, status, started, completed, error, details) ==
    [id |-> id, status |-> status, started_at |-> started,
     completed_at |-> completed, error |-> error, details |-> details]

\* SyncState.data.  histKey: the key run_history is present and a list.
\* track = 0: no last_processed_track_id.  scratch: a module's scratch key,
\* "none", "dict" (string keys) or "tuplekey" (a dict keyed by tuples, as the
\* presentation module's group cache).  extra: a key unknown to the store.
EmptyData ==
    [histKey |-> FALSE, hist |-> <<>>, track |-> 0, trackAt |-> 0,
     scratch |-> "none", extra |-> "none"]

AbsentFile == [kind |-> "absent", version |-> 0, updated_at |-> 0, body |-> EmptyData]

\* The history a loaded file holds: n completed records, ids 1..n.
CannedHistory(n) ==
    [i \in 1..n |-> RunRecord(i, "success", i, i, "none", "d")]

ClockStart == MaxLoaded + 1

(***************************************************************************)
(* State store: the operations of SyncState as functions of data.          *)
(***************************************************************************)
\* _ensure_run_history: a missing (or non-list) run_history becomes [].
ensure_run_history(d) ==
    IF d.histKey THEN d ELSE [d EXCEPT !.histKey = TRUE, !.hist = <<>>]

\* A trim that keeps the oldest records instead of the newest.
trim_run_history_keep_oldest(h) ==
    IF Len(h) > RUN_HISTORY_LIMIT THEN SubSeq(h, 1, RUN_HISTORY_LIMIT) ELSE h

\* A trim that is off by one.
trim_run_history_off_by_one(h) ==
    IF Len(h) > RUN_HISTORY_LIMIT + 1
    THEN SubSeq(h, Len(h) - RUN_HISTORY_LIMIT, Len(h))
    ELSE h

\* _trim_run_history: del history[:-RUN_HISTORY_LIMIT].
trim_run_history(h) ==
    IF Len(h) > RUN_HISTORY_LIMIT
    THEN SubSeq(h, Len(h) - RUN_HISTORY_LIMIT + 1, Len(h))
    ELSE h

\* begin_run(run_id, started_at): started_at = 0 is None ("or _utcnow_iso()").
begin_run(d, run_id, started_at, t) ==
    LET e == ensure_run_history(d)
        rec == RunRecord(run_id, "running",
                         IF started_at # 0 THEN started_at ELSE t,
                         0, "none", "none")
    IN  [e EXCEPT !.hist = trim_run_history(Append(e.hist, rec))]

\* A search that stops at the oldest record with this id.
OldestIndex(h, run_id) ==
    LET hits == {i \in 1..Len(h) : h[i].id = run_id}
    IN  IF hits = {} THEN 0 ELSE CHOOSE i \in hits : \A j \in hits : i <= j

\* The index of the youngest record with this id, 0 when there is none
\* (for candidate in reversed(history)).
YoungestIndex(h, run_id) ==
    LET hits == {i \in 1..Len(h) : h[i].id = run_id}
    IN  IF hits = {} THEN 0 ELSE CHOOSE i \in hits : \A j \in hits : j <= i

\* complete_run(run_id, status, completed_at, error, details):
\* completed_at = 0, error = "none", details = "none" are None.
complete_run(d, run_id, status, completed_at, error, details, t) ==
    LET e == ensure_run_history(d)
        i == YoungestIndex(e.hist, run_id)
        stamp == IF completed_at # 0 THEN completed_at ELSE t
        h1 == IF i = 0
              THEN Append(e.hist, RunRecord(run_id, "none", stamp, 0, "none", "none"))
              ELSE e.hist
        k == IF i = 0 THEN Len(h1) ELSE i
        h2 == [h1 EXCEPT ![k] = [@ EXCEPT !.status = status,
                                          !.completed_at = stamp,
                                          !.error = error,
                                          !.details = details]]
    IN  [e EXCEPT !.hist = trim_run_history(h2)]

\* set_last_processed_track_id(track_id): the new data and whether it
\* marks the state dirty.  track_id = 0 is None.
set_last_track_marks_nothing(d, track_id) == FALSE

set_last_track_marks(d, track_id) ==
    IF track_id = 0 THEN d.track # 0 ELSE d.track # track_id

set_last_processed_track_id(d, track_id, t) ==
    IF track_id = 0
    THEN IF d.track # 0 THEN [d EXCEPT !.track = 0, !.trackAt = 0] ELSE d
    ELSE IF d.track = track_id THEN d
         ELSE [d EXCEPT !.track = track_id, !.trackAt = t]

(***************************************************************************)
(* State store: the JSON document.                                         *)
(***************************************************************************)
\* json.dump raises TypeError on a dict keyed by tuples.
JsonSerializable(d) == d.scratch # "tuplekey"

\* The payload save() builds: version and updated_at, then the data keys.
Payload(d, t) ==
    [kind |-> "doc", version |-> STATE_VERSION, updated_at |-> t, body |-> d]

\* What open("w") leaves before json.dump has written the whole payload, and
\* what stays when json.dump raises part-way: a truncated document.
PartialFile(t) ==
    [kind |-> "partial", version |-> 0, updated_at |-> t, body |-> EmptyData]

\* load_state: the keys of the payload other than version and updated_at.
LoadedData(f) == IF f.kind = "doc" THEN f.body ELSE EmptyData

(***************************************************************************)
(* Supervisor: values.                                                     *)
(***************************************************************************)
Ids == {"A", "B", "C"}

\* A SyncConfig: its schedule.interval in ticks; 0 is an expression that
\* _parse_interval rejects ("0s", "2x").  NoSync: no sync of that id.
SyncConfig(n) == [interval |-> n, type |-> "playlist_mirror"]
NoSync == [interval |-> 0, type |-> "none"]

\* A sync file that SyncConfig.model_validate rejects: load_sync_configs
\* raises ConfigError.
BrokenSync == [interval |-> 0, type |-> "invalid"]

\* The contents a sync file may be given.
SyncFiles(id) ==
    IF id = "A" THEN {NoSync, SyncConfig(1), SyncConfig(2), SyncConfig(0)}
    ELSE IF id = "B" THEN {NoSync, SyncConfig(1), BrokenSync}
    ELSE {NoSync, SyncConfig(2)}

\* A job of the scheduler: the interval of its trigger, whether it is paused
\* (next_run_time is None) and the ticks until next_run_time: 0 is now, -1 is
\* a run time in the past.  NoJob: the job store has no job of that id.
Job(trig, paused, next) == [trig |-> trig, paused |-> paused, next |-> next]
NoJob == Job(0, FALSE, 0)

HasJob(j) == j.trig # 0

\* _parse_interval is not exercised.
IntervalQuiet == expression = <<>> /\ parsed = [kind |-> "idle", total |-> 0]

\* _determine_phase is not exercised.
PhaseQuiet == customPhases = <<>> /\ localNow = 0 /\ phaseResult = "idle"

\* The presentation engine is not exercised.
PresQuiet ==
    /\ presOptions = <<>> /\ pres = <<>> /\ presNow = 0 /\ presFires = 0
    /\ presLast = <<>>

\* The shared playlist cache is not exercised.
CacheQuiet ==
    /\ cacheFiles = <<>> /\ sharedPlaylistCache = <<>> /\ playlistCacheMtimes = <<>>
    /\ cacheClock = 0

\* The reload and the IPC handler are not exercised step by step.
RaceQuiet ==
    /\ jobsLock = "none" /\ reloadPc = "idle" /\ reloadNew = <<>> /\ reloadTodo = <<>>
    /\ ipcPc = "idle" /\ ipcReq = <<>>

\* run() is not exercised step by step.
StartQuiet ==
    /\ runPc = "waiting" /\ hotReload = TRUE /\ socketFile = "bound"
    /\ socketEnv = <<>> /\ schedulerRunning = TRUE /\ serveThread = "listening"
    /\ startFired = {}

\* The asset endpoints are not exercised.
AssetsQuiet ==
    /\ assetDirs = {} /\ assetFiles = {} /\ assetReply = <<>> /\ uploads = 0

\* Sequential selection alone is not exercised.
SeqQuiet ==
    /\ seqOptions = <<>>
    /\ seqState = <<>>
    /\ seqLast = <<>>
    /\ seqFires = 0

\* The remote updates of a presentation fire are not exercised.
ApplyQuiet ==
    /\ applyOptions = <<>>
    /\ applyDetails = <<>>
    /\ applyLast = <<>>
    /\ applyFires = 0

\* The feeding of the shared playlist cache is not exercised.
FeedQuiet ==
    /\ feedDisk = <<>>
    /\ feedIndex = <<>>
    /\ feedJobs = <<>>
    /\ feedSyncs = {}
    /\ feedRan = {}
    /\ feedLast = <<>>
    /\ feedOps = 0

\* The playlist mirror is not exercised.
MirrorQuiet ==
    /\ mirrorOptions = <<>>
    /\ mirrorSource = <<>>
    /\ mirrorCursor = 0
    /\ mirrorAdds = <<>>
    /\ mirrorLast = <<>>
    /\ mirrorOps = 0

\* The variables of the components other than `part` while `part` is exercised.
AuxQuietBut(part) ==
    /\ part = "interval" \/ IntervalQuiet
    /\ part = "phase" \/ PhaseQuiet
    /\ part = "presentation" \/ PresQuiet
    /\ part = "cache" \/ CacheQuiet
    /\ part = "race" \/ RaceQuiet
    /\ part = "start" \/ StartQuiet
    /\ part = "assets" \/ AssetsQuiet
    /\ part = "sequential" \/ SeqQuiet
    /\ part = "apply" \/ ApplyQuiet
    /\ part = "feed" \/ FeedQuiet
    /\ part = "mirror" \/ MirrorQuiet

AuxQuiet == AuxQuietBut("none")

\* The supervisor's variables while only the state store is exercised.
SupQuiet ==
    /\ syncIndex = [id \in Ids |-> NoSync]
    /\ diskConfig = [id \in Ids |-> NoSync]
    /\ jobs = [id \in Ids |-> NoJob]
    /\ instances = [id \in Ids |-> 0]
    /\ poolQueue = <<>>
    /\ executing = [id \in Ids |-> 0]
    /\ dropped = [id \in Ids |-> FALSE]
    /\ reloaded = FALSE
    /\ edits = 0
    /\ ipcs = 0
    /\ supOp = [op |-> "none", id |-> "none", ok |-> TRUE, events |-> {}]
    /\ ipcAlive = TRUE
    /\ ipcPaused = {}

(***************************************************************************)
(* State store: actions.  Every call reads the clock once; the clock       *)
(* advances between calls.                                                 *)
(***************************************************************************)
\* The lengths of the run_history of the state files loaded at the start.
LoadedLens == {0, 1, RUN_HISTORY_LIMIT - 1, RUN_HISTORY_LIMIT, MaxLoaded}

\* The run ids passed to begin_run and complete_run: the oldest loaded id,
\* the youngest loaded id and one no loaded file holds.
OpIds == {1, MaxLoaded, MaxLoaded + 1}

\* (status, error, details) triples passed to complete_run.
Completions ==
    { <<"success", "none", "none">>, <<"success", "none", "d">>,
      <<"failed", "e", "d">> }

TrackIds == {0, 1, 2}

LoadedFiles ==
    {AbsentFile} \cup
    { [kind |-> "doc", version |-> STATE_VERSION, updated_at |-> n,
       body |-> [histKey |-> TRUE, hist |-> CannedHistory(n), track |-> 0,
                 trackAt |-> 0, scratch |-> "none", extra |-> x]] :
        n \in LoadedLens, x \in {"none", "x"} }

\* No fire has begun: n counts the fires begun, id is the run id (0: none),
\* path the branch _run_sync took, summary the module's last_run_summary,
\* wrote whether the module has written to the state, end how _run_sync
\* was left ("returned" or "raised").
NoFire ==
    [n |-> 0, id |-> 0, path |-> "none", summary |-> "none", wrote |-> FALSE,
     end |-> "none"]

\* load_state(path) of a readable file, or of no file.
StoreLoaded(f) ==
    /\ file = f
    /\ data = LoadedData(f)
    /\ dirty = FALSE
    /\ savePc = "idle"
    /\ now = ClockStart
    /\ inFire = FALSE
    /\ changed = FALSE
    /\ lastOp = "load"
    /\ fileBefore = f
    /\ pairs = 0
    /\ firePc = "idle"
    /\ fireRun = NoFire

InitStore == (\E f \in LoadedFiles : StoreLoaded(f)) /\ SupQuiet /\ AuxQuiet

\* No save() is in progress: the state has one owner, which makes one call
\* at a time.
Callable == savePc = "idle"

\* The bound on the number of calls explored.
Budget == now < ClockStart + MaxClock

BeginRun(run_id, started_at) ==
    /\ Callable
    /\ data' = begin_run(data, run_id, started_at, now)
    /\ dirty' = TRUE
    /\ inFire' = TRUE
    /\ changed' = (changed \/ data' # data)
    /\ lastOp' = "begin_run"
    /\ now' = now + 1
    /\ UNCHANGED <<file, savePc, fileBefore, pairs>>

CompleteRun(run_id, status, completed_at, error, details) ==
    /\ Callable
    /\ data' = complete_run(data, run_id, status, completed_at, error, details, now)
    /\ dirty' = TRUE
    /\ changed' = (changed \/ data' # data)
    /\ lastOp' = "complete_run"
    /\ now' = now + 1
    /\ UNCHANGED <<file, savePc, inFire, fileBefore, pairs>>

SetLastTrack(track_id) ==
    /\ Callable
    /\ data' = set_last_processed_track_id(data, track_id, now)
    /\ dirty' = (dirty \/ set_last_track_marks(data, track_id))
    /\ changed' = (changed \/ data' # data)
    /\ lastOp' = "set_last_track"
    /\ now' = now + 1
    /\ UNCHANGED <<file, savePc, inFire, fileBefore, pairs>>

\* A module's run(context) writes its scratch key into state.data during a
\* fire, and sets state._dirty or not.
ModuleWrite(kind, marks) ==
    /\ Callable
    /\ inFire
    /\ data' = [data EXCEPT !.scratch = kind]
    /\ dirty' = (dirty \/ marks)
    /\ changed' = (changed \/ data' # data)
    /\ lastOp' = "module_write"
    /\ now' = now + 1
    /\ UNCHANGED <<file, savePc, inFire, fileBefore, pairs>>

\* save() on a state that is not dirty: return.
SaveClean ==
    /\ Callable
    /\ ~dirty
    /\ lastOp' = "save_noop"
    /\ fileBefore' = file
    /\ now' = now + 1
    /\ UNCHANGED <<data, dirty, file, savePc, inFire, changed, pairs>>

\* save(): the payload is stamped, the parent directory made and the final
\* path opened for writing, which truncates it.
SaveOpen ==
    /\ Callable
    /\ dirty
    /\ fileBefore' = file
    /\ file' = PartialFile(now)
    /\ savePc' = "dumping"
    /\ lastOp' = "save_open"
    /\ now' = now + 1
    /\ UNCHANGED <<data, dirty, inFire, changed, pairs>>

\* save(): json.dump writes the whole payload; the dirty flag is cleared.
SaveDump ==
    /\ savePc = "dumping"
    /\ JsonSerializable(data)
    /\ file' = Payload(data, file.updated_at)
    /\ dirty' = FALSE
    /\ savePc' = "idle"
    /\ inFire' = FALSE
    /\ changed' = FALSE
    /\ lastOp' = "save_write"
    /\ UNCHANGED <<data, now, fileBefore, pairs>>

\* save(): json.dump raises part-way; the handle is closed on what was
\* written and the exception leaves save() before the flag is cleared.
SaveRaise ==
    /\ savePc = "dumping"
    /\ ~JsonSerializable(data)
    /\ savePc' = "idle"
    /\ lastOp' = "save_error"
    /\ UNCHANGED <<data, dirty, file, now, inFire, changed, fileBefore, pairs>>

\* load_state(path): a fresh SyncState from the file; a truncated file makes
\* json.load raise.
Load ==
    /\ Callable
    /\ IF file.kind = "partial"
       THEN /\ lastOp' = "load_error"
            /\ UNCHANGED <<data, dirty, inFire, changed>>
       ELSE /\ data' = LoadedData(file)
            /\ dirty' = FALSE
            /\ inFire' = FALSE
            /\ changed' = FALSE
            /\ lastOp' = "load"
    /\ now' = now + 1
    /\ UNCHANGED <<file, savePc, fileBefore, pairs>>

NextStore ==
    \/ \E id \in OpIds, s \in {0, 1} :
          Budget /\ BeginRun(id, s * id) /\ UNCHANGED <<supVars, fireVars, ipcVars, auxVars>>
    \/ \E id \in OpIds, c \in Completions :
          Budget /\ CompleteRun(id, c[1], 0, c[2], c[3]) /\ UNCHANGED <<supVars, fireVars, ipcVars, auxVars>>
    \/ \E t \in TrackIds : Budget /\ SetLastTrack(t) /\ UNCHANGED <<supVars, fireVars, ipcVars, auxVars>>
    \/ \E k \in {"dict", "tuplekey"}, m \in BOOLEAN :
          Budget /\ ModuleWrite(k, m) /\ UNCHANGED <<supVars, fireVars, ipcVars, auxVars>>
    \/ Budget /\ SaveClean /\ UNCHANGED <<supVars, fireVars, ipcVars, auxVars>>
    \/ Budget /\ SaveOpen /\ UNCHANGED <<supVars, fireVars, ipcVars, auxVars>>
    \/ SaveDump /\ UNCHANGED <<supVars, fireVars, ipcVars, auxVars>>
    \/ SaveRaise /\ UNCHANGED <<supVars, fireVars, ipcVars, auxVars>>
    \/ Budget /\ Load /\ UNCHANGED <<supVars, fireVars, ipcVars, auxVars>>

SpecStore == InitStore /\ [][NextStore]_vars

(***************************************************************************)
(* The history-trim scenario: from an empty state, begin_run(k) then       *)
(* complete_run(k, "success") for k = 1, 2, ...                            *)
(***************************************************************************)
\* The states with no run: no file, or a file without records.
EmptyFiles ==
    {AbsentFile} \cup
    { [kind |-> "doc", version |-> STATE_VERSION, updated_at |-> 1,
       body |-> [EmptyData EXCEPT !.histKey = hk, !.extra = x]] :
        hk \in BOOLEAN, x \in {"none", "x"} }

InitTrim == (\E f \in EmptyFiles : StoreLoaded(f)) /\ SupQuiet /\ AuxQuiet

\* The scenario has begun a run and not yet completed it.
RunOpen == lastOp = "begin_run"

ScenarioBegin ==
    /\ pairs < MaxPairs
    /\ ~RunOpen
    /\ BeginRun(pairs + 1, 0)

ScenarioComplete ==
    /\ RunOpen
    /\ data' = complete_run(data, pairs + 1, "success", 0, "none", "none", now)
    /\ dirty' = TRUE
    /\ changed' = TRUE
    /\ lastOp' = "complete_run"
    /\ now' = now + 1
    /\ pairs' = pairs + 1
    /\ UNCHANGED <<file, savePc, inFire, fileBefore>>

NextTrim ==
    \/ ScenarioBegin /\ UNCHANGED <<supVars, fireVars, ipcVars, auxVars>>
    \/ ScenarioComplete /\ UNCHANGED <<supVars, fireVars, ipcVars, auxVars>>

SpecTrim == InitTrim /\ [][NextTrim]_vars

(***************************************************************************)
(* Claims about the state store.                                           *)
(***************************************************************************)
\* C4: after every begin_run and every complete_run, whatever the run id and
\* the status and whatever file was loaded, run_history has at most
\* RUN_HISTORY_LIMIT records.
C4_HistoryCap ==
    lastOp \in {"begin_run", "complete_run"} => Len(data.hist) <= RUN_HISTORY_LIMIT

\* A complete_run with an id no record has appended a record to a full
\* history, and the oldest record was dropped.
C4_Witness ==
    /\ lastOp = "complete_run"
    /\ Len(data.hist) = RUN_HISTORY_LIMIT
    /\ data.hist[RUN_HISTORY_LIMIT].id = MaxLoaded + 1
    /\ data.hist[1].id = 2

\* C5: in the scenario, after k pairs (and after the begin_run of pair k+1)
\* run_history holds the newest min(n, RUN_HISTORY_LIMIT) of the n records
\* appended so far, ids consecutive and in the order of their begin_run; the
\* completed ones have status success.
C5_TrimKeepsNewest ==
    LET h == data.hist
        n == IF RunOpen THEN pairs + 1 ELSE pairs
        len == IF n > RUN_HISTORY_LIMIT THEN RUN_HISTORY_LIMIT ELSE n
    IN  /\ Len(h) = len
        /\ \A i \in 1..len :
              /\ h[i].id = n - len + i
              /\ h[i].status = (IF h[i].id <= pairs THEN "success" ELSE "running")

\* 25 pairs are done and the history is r-6 .. r-25.
C5_Witness ==
    /\ pairs = 25
    /\ Len(data.hist) = 20
    /\ data.hist[1].id = 6
    /\ data.hist[20].id = 25

\* C6: save() writes iff the state was changed since the last completed save
\* or load: the dirty flag says exactly that; a save of a clean state leaves
\* the file as it was; a save that wrote the document cleared the flag.
C6_SaveIffDirty ==
    /\ (savePc = "idle" => (dirty <=> changed))
    /\ (lastOp = "save_noop" => file = fileBefore /\ ~changed)
    /\ (lastOp = "save_open" => changed)
    /\ (lastOp = "save_write" => ~dirty /\ file.kind = "doc" /\ file.body = data)

\* A save of a clean state after a save that wrote.
C6_Witness ==
    /\ lastOp = "save_noop"
    /\ file.kind = "doc"
    /\ file.updated_at >= ClockStart
    /\ file.body = data

\* C7: load_state after save() gives back the visible data of every state
\* that was saved: once a save() of unsaved changes has returned or raised,
\* the file is a document whose keys other than version and updated_at are
\* the state's.
C7_RoundTrip ==
    lastOp \in {"save_write", "save_error"} =>
        /\ file.kind = "doc"
        /\ LoadedData(file) = data

\* C8: at every point of a save(), and after it, a reader of the final path
\* finds the complete previous document (or no file, if there was none) or
\* the complete new one.
C8_SaveAtomic ==
    \/ file = fileBefore /\ file.kind # "partial"
    \/ file.kind = "doc" /\ file.body = data

(***************************************************************************)
(* Supervisor: trigger construction and registration.                      *)
(***************************************************************************)
\* _build_trigger succeeds: _parse_interval raises ValueError unless the
\* expression is well formed and its total is positive.
ValidSchedule(sync) == sync.interval > 0

\* _register_sync_job(sync, immediate) on the job `old` of that id: an invalid
\* schedule is logged and the job store left alone; otherwise add_job with
\* replace_existing=True puts a job with next_run_time = now when immediate,
\* and next_run_time=None otherwise, which adds the job paused.
register_sync_job(sync, immediate, old) ==
    IF ~ValidSchedule(sync) THEN old
    ELSE IF immediate THEN Job(sync.interval, FALSE, 0)
    ELSE Job(sync.interval, TRUE, 0)

\* The ids a configuration defines.
Defined(cfg) == {id \in Ids : cfg[id] # NoSync}

\* load_sync_configs returns: no file of the directory is rejected.
Loadable(cfg) == \A id \in Ids : cfg[id] # BrokenSync

\* The configurations the sync directory may hold.
Configs == {cfg \in [Ids -> UNION {SyncFiles(id) : id \in Ids}] :
               \A id \in Ids : cfg[id] \in SyncFiles(id)}

\* The store's variables while the supervisor is exercised.
StoreQuiet == StoreLoaded(AbsentFile)

\* __post_init__ and run(): the index is built from the loaded syncs and
\* _register_all_syncs registers each of them (immediate=False).
SupStarted ==
    /\ StoreQuiet
    /\ diskConfig \in {cfg \in Configs : cfg["C"] = NoSync /\ Loadable(cfg)}
    /\ syncIndex = diskConfig
    /\ jobs = [id \in Ids |->
                 IF diskConfig[id] = NoSync THEN NoJob
                 ELSE register_sync_job(diskConfig[id], FALSE, NoJob)]
    /\ instances = [id \in Ids |-> 0]
    /\ poolQueue = <<>>
    /\ executing = [id \in Ids |-> 0]
    /\ dropped = [id \in Ids |-> FALSE]
    /\ reloaded = FALSE
    /\ edits = 0
    /\ ipcs = 0
    /\ supOp = [op |-> "none", id |-> "none", ok |-> TRUE, events |-> {}]
    /\ ipcAlive = TRUE
    /\ ipcPaused = {}

InitSup == SupStarted /\ AuxQuiet

(***************************************************************************)
(* Supervisor: the scheduler thread and the executor (one worker).         *)
(***************************************************************************)
max_workers == 1
max_instances == 1

NoOp == [op |-> "none", id |-> "none", ok |-> TRUE, events |-> {}]

\* The pool has an idle worker thread.
WorkerFreeUnbounded == TRUE

WorkerFree ==
    LET busy == {id \in Ids : executing[id] > 0}
    IN  Cardinality(busy) < max_workers

\* submit_job accepts a fire of this job: fewer than max_instances of its
\* fires are submitted and unfinished.
InstanceFreeAlways(id) == TRUE

InstanceFree(id) == instances[id] < max_instances

\* The number of fires of id waiting in the pool.
QueuedCount(id) == Cardinality({i \in 1..Len(poolQueue) : poolQueue[i].id = id})

\* The trigger's next fire time never advances.
NextFireTimesStuck(job) == {0}

\* The next_run_time the scheduler gives a job it has processed, in ticks
\* from now: the run time just processed plus the interval; when that run
\* time was in the past, some time within one interval.
NextFireTimes(job) == IF job.next = 0 THEN {job.trig} ELSE 1..job.trig

\* One tick of time passes: every next_run_time comes one tick nearer, a run
\* time that was now is in the past, and the fires waiting in the pool are
\* late.
Tick ==
    /\ jobs' = [id \in Ids |->
                  IF HasJob(jobs[id]) /\ ~jobs[id].paused
                  THEN [jobs[id] EXCEPT !.next = IF @ > 0 THEN @ - 1 ELSE -1]
                  ELSE jobs[id]]
    /\ poolQueue' = [i \in 1..Len(poolQueue) |-> [poolQueue[i] EXCEPT !.late = TRUE]]
    /\ jobs' # jobs \/ poolQueue' # poolQueue
    /\ supOp' = NoOp
    /\ UNCHANGED <<syncIndex, diskConfig, instances, executing, dropped, reloaded,
                   edits, ipcs>>

\* The scheduler processes a due job (coalesce=True: one fire for all its
\* run times up to now): the fire is submitted to the pool, or dropped when
\* max_instances fires of the job are unfinished; then next_run_time is moved
\* to the trigger's next fire time.
Process(id) ==
    /\ HasJob(jobs[id]) /\ ~jobs[id].paused /\ jobs[id].next <= 0
    /\ IF InstanceFree(id)
       THEN /\ poolQueue' = Append(poolQueue, [id |-> id, late |-> jobs[id].next < 0])
            /\ instances' = [instances EXCEPT ![id] = @ + 1]
            /\ UNCHANGED dropped
       ELSE /\ dropped' = [dropped EXCEPT ![id] = TRUE]
            /\ UNCHANGED <<poolQueue, instances>>
    /\ \E n \in NextFireTimes(jobs[id]) : jobs' = [jobs EXCEPT ![id].next = n]
    /\ supOp' = NoOp
    /\ UNCHANGED <<syncIndex, diskConfig, executing, reloaded, edits, ipcs>>

\* The worker takes the next fire of the pool and calls _run_sync(sync_id).
WorkerStart ==
    /\ poolQueue # <<>>
    /\ WorkerFree
    /\ executing' = [executing EXCEPT ![Head(poolQueue).id] = @ + 1]
    /\ poolQueue' = Tail(poolQueue)
    /\ supOp' = NoOp
    /\ UNCHANGED <<syncIndex, diskConfig, jobs, instances, dropped, reloaded, edits,
                   ipcs>>

\* The worker takes the next fire and finds its run time older than the
\* misfire grace time: the fire is skipped, _run_sync is not called.
WorkerSkip ==
    /\ poolQueue # <<>>
    /\ WorkerFree
    /\ Head(poolQueue).late
    /\ poolQueue' = Tail(poolQueue)
    /\ instances' = [instances EXCEPT ![Head(poolQueue).id] = @ - 1]
    /\ dropped' = [dropped EXCEPT ![Head(poolQueue).id] = FALSE]
    /\ supOp' = NoOp
    /\ UNCHANGED <<syncIndex, diskConfig, jobs, executing, reloaded, edits, ipcs>>

\* _run_sync(sync_id) returns (or raises): the fire is finished.
WorkerFinish(id) ==
    /\ executing[id] > 0
    /\ executing' = [executing EXCEPT ![id] = @ - 1]
    /\ instances' = [instances EXCEPT ![id] = @ - 1]
    /\ dropped' = [dropped EXCEPT ![id] = FALSE]
    /\ supOp' = [op |-> IF dropped[id] THEN "finish_after_drop" ELSE "finish",
                 id |-> id, ok |-> TRUE, events |-> {}]
    /\ UNCHANGED <<syncIndex, diskConfig, jobs, poolQueue, reloaded, edits, ipcs>>

(***************************************************************************)
(* Supervisor: hot reload.                                                 *)
(***************************************************************************)
\* A sync file is written, rewritten or deleted.
EditConfig(id, c) ==
    /\ edits < MaxEdits
    /\ edits + ipcs < MaxOps
    /\ c \in SyncFiles(id)
    /\ c # diskConfig[id]
    /\ diskConfig' = [diskConfig EXCEPT ![id] = c]
    /\ reloaded' = FALSE
    /\ edits' = edits + 1
    /\ supOp' = NoOp
    /\ UNCHANGED <<syncIndex, jobs, instances, poolQueue, executing, dropped, ipcs>>

\* The ids _reload_configuration treats as removed, added and updated.
Removed(index, new) == Defined(index) \ Defined(new)
Added(index, new) == Defined(new) \ Defined(index)
Updated(index, new) ==
    {id \in Defined(new) \cap Defined(index) : new[id] # index[id]}

\* The index after _reload_configuration: updated and added ids are
\* assigned; removed ids are left in it.
reload_index(index, new) ==
    [id \in Ids |->
        IF id \in Updated(index, new) \cup Added(index, new) THEN new[id]
        ELSE index[id]]

\* The job store after _reload_configuration: remove_job for removed ids
\* (a lookup error is swallowed), _register_sync_job(immediate=True) for
\* updated and added ids.
reload_jobs(index, new, js) ==
    [id \in Ids |->
        IF id \in Removed(index, new) THEN NoJob
        ELSE IF id \in Updated(index, new) \cup Added(index, new)
        THEN register_sync_job(new[id], TRUE, js[id])
        ELSE js[id]]

\* The events of a reload: the removals logged, the updates and the adds.
reload_events(index, new) ==
    {<<"remove", id>> : id \in Removed(index, new)} \cup
    {<<"update", id>> : id \in Updated(index, new)} \cup
    {<<"add", id>> : id \in Added(index, new)}

\* A reload that applies the diff although the load raised.
reload_on_error_partial(index, new, js) ==
    <<reload_index(index, new), reload_jobs(index, new, js)>>

\* _reload_configuration when load_global_config or load_sync_configs
\* raises: the error is logged and the method returns; the index and the
\* jobs it leaves.
reload_on_error(index, new, js) == <<index, js>>

\* _reload_configuration, the configuration loading with an error.
ReloadFail ==
    /\ ~Loadable(diskConfig)
    /\ syncIndex' = reload_on_error(syncIndex, diskConfig, jobs)[1]
    /\ jobs' = reload_on_error(syncIndex, diskConfig, jobs)[2]
    /\ supOp' = [op |-> "reload_failed", id |-> "none", ok |-> FALSE, events |-> {}]
    /\ UNCHANGED <<diskConfig, instances, poolQueue, executing, dropped, reloaded,
                   edits, ipcs>>

\* _reload_configuration, the configuration loading without error.
Reload ==
    /\ Loadable(diskConfig)
    /\ syncIndex' = reload_index(syncIndex, diskConfig)
    /\ jobs' = reload_jobs(syncIndex, diskConfig, jobs)
    /\ reloaded' = TRUE
    /\ supOp' = [op |-> IF reloaded THEN "reload_again" ELSE "reload",
                 id |-> "none", ok |-> TRUE,
                 events |-> reload_events(syncIndex, diskConfig)]
    /\ UNCHANGED <<diskConfig, instances, poolQueue, executing, dropped, edits, ipcs>>

(***************************************************************************)
(* Supervisor: IPC commands.  supOp.ok is the response status.             *)
(***************************************************************************)
\* "Unknown sync": the id is not in the index.
IpcUnknown(id) == syncIndex[id] = NoSync

IpcReply(op, id, ok) ==
    /\ ipcAlive
    /\ UNCHANGED ipcAlive
    /\ ipcs < MaxIpcs
    /\ edits + ipcs < MaxOps
    /\ ipcs' = ipcs + 1
    /\ supOp' = [op |-> op, id |-> id, ok |-> ok, events |-> {}]
    /\ UNCHANGED <<syncIndex, diskConfig, instances, poolQueue, executing, dropped,
                   reloaded, edits>>

\* pause: pause_job sets next_run_time to None; it raises for an id without
\* a job, which is answered as an error.
IpcPause(id) ==
    /\ IF ~IpcUnknown(id) /\ HasJob(jobs[id])
       THEN jobs' = [jobs EXCEPT ![id].paused = TRUE, ![id].next = 0]
       ELSE UNCHANGED jobs
    /\ ipcPaused' = IF ~IpcUnknown(id) /\ HasJob(jobs[id])
                    THEN ipcPaused \cup {id} ELSE ipcPaused
    /\ IpcReply("pause", id, ~IpcUnknown(id) /\ HasJob(jobs[id]))

\* resume: resume_job sets next_run_time to the trigger's next fire time
\* after now.
IpcResume(id) ==
    /\ IF ~IpcUnknown(id) /\ HasJob(jobs[id])
       THEN \E n \in 1..jobs[id].trig :
               jobs' = [jobs EXCEPT ![id].paused = FALSE, ![id].next = n]
       ELSE UNCHANGED jobs
    /\ ipcPaused' = IF ~IpcUnknown(id) /\ HasJob(jobs[id])
                    THEN ipcPaused \ {id} ELSE ipcPaused
    /\ IpcReply("resume", id, ~IpcUnknown(id) /\ HasJob(jobs[id]))

\* delete: remove_job.
IpcDelete(id) ==
    /\ IF ~IpcUnknown(id) /\ HasJob(jobs[id])
       THEN jobs' = [jobs EXCEPT ![id] = NoJob]
       ELSE UNCHANGED jobs
    /\ ipcPaused' = IF ~IpcUnknown(id) /\ HasJob(jobs[id])
                    THEN ipcPaused \ {id} ELSE ipcPaused
    /\ IpcReply("delete", id, ~IpcUnknown(id) /\ HasJob(jobs[id]))

\* start: _register_sync_job(sync, immediate=True); the answer is ok
\* whatever the registration did.
IpcStart(id) ==
    /\ IF ~IpcUnknown(id)
       THEN jobs' = [jobs EXCEPT ![id] = register_sync_job(syncIndex[id], TRUE, @)]
       ELSE UNCHANGED jobs
    /\ ipcPaused' = IF ~IpcUnknown(id) /\ ~jobs'[id].paused
                    THEN ipcPaused \ {id} ELSE ipcPaused
    /\ IpcReply("start", id, ~IpcUnknown(id))

Next ==
    \/ Tick /\ UNCHANGED <<storeVars, fireVars, ipcVars, auxVars>>
    \/ \E id \in Ids : Process(id) /\ UNCHANGED <<storeVars, fireVars, ipcVars, auxVars>>
    \/ WorkerStart /\ UNCHANGED <<storeVars, fireVars, ipcVars, auxVars>>
    \/ WorkerSkip /\ UNCHANGED <<storeVars, fireVars, ipcVars, auxVars>>
    \/ \E id \in Ids : WorkerFinish(id) /\ UNCHANGED <<storeVars, fireVars, ipcVars, auxVars>>
    \/ \E id \in Ids : \E c \in SyncFiles(id) : EditConfig(id, c) /\ UNCHANGED <<storeVars, fireVars, ipcVars, auxVars>>
    \/ Reload /\ UNCHANGED <<storeVars, fireVars, ipcVars, auxVars>>
    \/ ReloadFail /\ UNCHANGED <<storeVars, fireVars, ipcVars, auxVars>>
    \/ \E id \in Ids : IpcPause(id) /\ UNCHANGED <<storeVars, fireVars, auxVars>>
    \/ \E id \in Ids : IpcResume(id) /\ UNCHANGED <<storeVars, fireVars, auxVars>>
    \/ \E id \in Ids : IpcDelete(id) /\ UNCHANGED <<storeVars, fireVars, auxVars>>
    \/ \E id \in Ids : IpcStart(id) /\ UNCHANGED <<storeVars, fireVars, auxVars>>

Spec == InitSup /\ [][Next]_vars

(***************************************************************************)
(* Claims about the supervisor.                                            *)
(***************************************************************************)
\* The fires whose _run_sync is executing.
ExecutingFires == {f \in Ids \X (1..Cardinality(Ids)) : f[2] <= executing[f[1]]}

\* The job has a fire due: a job that is not paused, its run time reached.
Due(id) == HasJob(jobs[id]) /\ ~jobs[id].paused /\ jobs[id].next <= 0

\* C1: at every instant at most one fire, of whatever job, is executing.
C1_AtMostOneFire == Cardinality(ExecutingFires) <= 1

\* A fire of one job executes while a fire of another waits for the worker.
C1_Witness ==
    \E a \in Ids, b \in Ids :
        a # b /\ executing[a] = 1 /\ QueuedCount(b) = 1

\* C2: while a fire of a job is running, no second fire of that job runs
\* and none waits in the pool: a fire that comes due then is dropped.
C2_SecondFireDropped ==
    \A id \in Ids :
        executing[id] > 0 =>
            /\ executing[id] = 1
            /\ QueuedCount(id) = 0
            /\ instances[id] = 1

\* A fire of a job came due while its fire was running, and was dropped.
C2_Witness == \E id \in Ids : executing[id] = 1 /\ dropped[id]

\* C3 as stated: when a run during which fires of the job came due
\* completes, exactly one extra fire of the job is pending: it waits in the
\* pool or the job is due now.
C3_OneExtraFire ==
    [][\A id \in Ids :
          (executing[id] = 1 /\ executing'[id] = 0 /\ dropped[id]) =>
              (QueuedCount(id)' = 1 \/ Due(id)')]_vars

\* C3 as amended: a fire that comes due during a run is dropped and not
\* carried over: the drop leaves the pool alone and moves next_run_time to
\* the trigger's next fire time, after now; when the run completes no fire
\* of the job waits in the pool and the completion schedules nothing.
C3_DroppedNotCarried ==
    [][\A id \in Ids :
          /\ (/\ Due(id) /\ instances[id] > 0
              /\ jobs'[id].next > jobs[id].next /\ supOp'.op = "none") =>
                /\ dropped'[id]
                /\ poolQueue' = poolQueue
                /\ instances' = instances
                /\ jobs'[id].next >= 1
                /\ jobs'[id].next <= jobs[id].trig
          /\ (executing[id] = 1 /\ executing'[id] = 0) =>
                /\ QueuedCount(id)' = 0
                /\ instances'[id] = 0
                /\ jobs' = jobs]_vars

\* A run during which fires were dropped has completed; the job is not
\* pending, its next fire is a tick or more away.
C3_Witness ==
    /\ supOp.op = "finish_after_drop"
    /\ QueuedCount(supOp.id) = 0
    /\ ~Due(supOp.id)
    /\ HasJob(jobs[supOp.id]) /\ ~jobs[supOp.id].paused

\* C9: a reload of sync files that a reload has already read, unedited
\* since, produces no sync_removed, sync_updated or sync_added event (and
\* so touches no job of the scheduler).
C9_ReloadIdempotent == supOp.op = "reload_again" => supOp.events = {}

\* C10: after a reload the ids with a job in the scheduler are the ids of
\* the new configuration with a well-formed schedule (so a removed id has
\* none), and every id the reload added is registered with its next fire
\* now.
C10_TriggersMatchConfig ==
    supOp.op \in {"reload", "reload_again"} =>
        /\ {id \in Ids : HasJob(jobs[id])} =
              {id \in Defined(diskConfig) : ValidSchedule(diskConfig[id])}
        /\ \A id \in Ids :
              (<<"add", id>> \in supOp.events /\ ValidSchedule(diskConfig[id])) =>
                  jobs[id] = Job(diskConfig[id].interval, FALSE, 0)

\* C11: after a reload JobIndex is exactly the newly loaded configuration,
\* and while the files are as that reload read them an IPC command naming
\* an id with no file is answered "Unknown sync".
C11_IndexIsNewConfig ==
    /\ supOp.op \in {"reload", "reload_again"} => syncIndex = diskConfig
    /\ (/\ supOp.op \in {"pause", "resume", "delete", "start"}
        /\ reloaded
        /\ diskConfig[supOp.id] = NoSync) => ~supOp.ok

\* C12: a reload whose configuration fails to load leaves JobIndex, the
\* jobs of the scheduler and the executor's fires as they were, and the
\* scheduler goes on processing the jobs that are due.
C12_FailedReloadKeepsIndex ==
    /\ [][supOp'.op = "reload_failed" =>
            /\ syncIndex' = syncIndex
            /\ jobs' = jobs
            /\ poolQueue' = poolQueue
            /\ instances' = instances
            /\ executing' = executing]_vars
    /\ [](supOp.op = "reload_failed" =>
            \A id \in Ids : Due(id) => ENABLED (Process(id) /\ UNCHANGED <<storeVars, fireVars, ipcVars, auxVars>>))

\* A reload has failed on a directory that differs from JobIndex, and a job
\* of the scheduler is due.
C12_Witness ==
    /\ supOp.op = "reload_failed"
    /\ \E id \in Ids : syncIndex[id] # NoSync /\ Due(id)

(***************************************************************************)
(* One fire: _run_sync(sync_id) of a sync that is in the index, as calls   *)
(* on the sync's state.  The spec SpecFire runs fires one after another,   *)
(* as the single worker does.                                              *)
(***************************************************************************)
MaxFires == 2

\* A module's last_run_summary when run() is left: "none" is the empty
\* dict, the others the fields _update_summary has set.
Summaries ==
    {"none", "status=success",
     "status=rate_limited,reason=source_rate_limited,retry_after=1",
     "status=failed,reason=source_failed"}

\* The summaries a module returns with after it has caught
\* SpotifyRateLimitError.
RateLimited == {"status=rate_limited,reason=source_rate_limited,retry_after=1"}

\* _run_details(mode="supervisor", stage, summary): the dict {"mode": ...},
\* the stage when given, then the keys of the summary.
run_details(stage, summary) ==
    "mode=supervisor"
        \o (IF stage # "none" THEN ",stage=" \o stage ELSE "")
        \o (IF summary # "none" THEN "," \o summary ELSE "")

\* The record of the fire's run in run_history; a record with id 0 when the
\* history has none.
FireRecord ==
    LET i == YoungestIndex(data.hist, fireRun.id)
    IN  IF i = 0 THEN RunRecord(0, "none", 0, 0, "none", "none") ELSE data.hist[i]

\* sync_state = load_state(state_path); json.load raises on a truncated
\* file and the fire ends before begin_run.
FireLoad ==
    /\ firePc = "idle"
    /\ fireRun.n < MaxFires
    /\ Load
    /\ firePc' = IF file.kind = "partial" THEN "idle" ELSE "loaded"
    /\ fireRun' = [NoFire EXCEPT !.n = fireRun.n + 1,
                                 !.end = IF file.kind = "partial" THEN "raised"
                                         ELSE "none"]

\* run_id = run_started.isoformat(); sync_state.begin_run(run_id, run_id).
FireBegin ==
    /\ firePc = "loaded"
    /\ BeginRun(now, now)
    /\ firePc' = "begun"
    /\ fireRun' = [fireRun EXCEPT !.id = now]

\* self.registry.get(sync.type) raises KeyError: the run is completed as
\* failed, stage module_lookup.
FireLookupMiss ==
    /\ firePc = "begun"
    /\ CompleteRun(fireRun.id, "failed", 0, "e", run_details("module_lookup", "none"))
    /\ firePc' = "completed"
    /\ fireRun' = [fireRun EXCEPT !.path = "module_lookup"]

\* module = factory(sync), outside any try: the module's __init__ validates
\* the options and raises ValueError, which leaves _run_sync; or it returns.
FireConstruct(valid) ==
    /\ firePc = "begun"
    /\ firePc' = IF valid THEN "built" ELSE "idle"
    /\ fireRun' = IF valid THEN fireRun
                  ELSE [fireRun EXCEPT !.path = "construct_error", !.end = "raised"]
    /\ UNCHANGED storeVars

\* SpotifyClientFactory(...).get_client() raises: completed as failed, stage
\* spotify_init; or the client is built and the context made.
FireClient(built) ==
    /\ firePc = "built"
    /\ IF built
       THEN /\ firePc' = "ready"
            /\ UNCHANGED <<storeVars, fireRun>>
       ELSE /\ CompleteRun(fireRun.id, "failed", 0, "e",
                           run_details("spotify_init", "none"))
            /\ firePc' = "completed"
            /\ fireRun' = [fireRun EXCEPT !.path = "spotify_init"]

\* module.run(context) writes to the sync's state: the cursor
\* (set_last_processed_track_id) or its scratch key.
FireModuleWrite ==
    /\ firePc = "ready"
    /\ ~fireRun.wrote
    /\ \/ \E t \in TrackIds \ {0} : SetLastTrack(t)
       \/ \E k \in {"dict", "tuplekey"}, m \in BOOLEAN : ModuleWrite(k, m)
    /\ fireRun' = [fireRun EXCEPT !.wrote = TRUE]
    /\ UNCHANGED firePc

\* module.run raises: complete_run(failed, error, details with stage
\* module_execution and the summary).
FireModuleRaise(summary) ==
    /\ firePc = "ready"
    /\ CompleteRun(fireRun.id, "failed", 0, "e",
                   run_details("module_execution", summary))
    /\ firePc' = "completed"
    /\ fireRun' = [fireRun EXCEPT !.path = "module_error", !.summary = summary]

\* module.run returns: complete_run(status="success", details with the
\* summary), whatever the summary says.
FireModuleReturn(summary) ==
    /\ firePc = "ready"
    /\ CompleteRun(fireRun.id, "success", 0, "none", run_details("none", summary))
    /\ firePc' = "completed"
    /\ fireRun' = [fireRun EXCEPT !.path = "module_ok", !.summary = summary]

\* sync_state.save(), on the early returns and in the finally: the file is
\* opened ...
FireSaveOpen ==
    /\ firePc = "completed"
    /\ SaveOpen
    /\ firePc' = "saving"
    /\ UNCHANGED fireRun

\* ... and written, and _run_sync returns ...
FireSaveDump ==
    /\ firePc = "saving"
    /\ SaveDump
    /\ firePc' = "idle"
    /\ fireRun' = [fireRun EXCEPT !.end = "returned"]

\* ... or json.dump raises and the exception leaves _run_sync.
FireSaveRaise ==
    /\ firePc = "saving"
    /\ SaveRaise
    /\ firePc' = "idle"
    /\ fireRun' = [fireRun EXCEPT !.end = "raised"]

NextFire ==
    \/ FireLoad /\ UNCHANGED <<supVars, ipcVars, auxVars>>
    \/ FireBegin /\ UNCHANGED <<supVars, ipcVars, auxVars>>
    \/ FireLookupMiss /\ UNCHANGED <<supVars, ipcVars, auxVars>>
    \/ \E v \in BOOLEAN : FireConstruct(v) /\ UNCHANGED <<supVars, ipcVars, auxVars>>
    \/ \E b \in BOOLEAN : FireClient(b) /\ UNCHANGED <<supVars, ipcVars, auxVars>>
    \/ FireModuleWrite /\ UNCHANGED <<supVars, ipcVars, auxVars>>
    \/ \E m \in Summaries : FireModuleRaise(m) /\ UNCHANGED <<supVars, ipcVars, auxVars>>
    \/ \E m \in Summaries : FireModuleReturn(m) /\ UNCHANGED <<supVars, ipcVars, auxVars>>
    \/ FireSaveOpen /\ UNCHANGED <<supVars, ipcVars, auxVars>>
    \/ FireSaveDump /\ UNCHANGED <<supVars, ipcVars, auxVars>>
    \/ FireSaveRaise /\ UNCHANGED <<supVars, ipcVars, auxVars>>

SpecFire == InitStore /\ [][NextFire]_vars

(***************************************************************************)
(* Claims about a fire.                                                    *)
(***************************************************************************)
\* The state file holds the data of the SyncState: the last save wrote it.
Saved == file.kind = "doc" /\ file.body = data /\ ~dirty

\* C13: when module.run has raised, the fire ends with its record failed,
\* with the error string and details holding stage = module_execution and
\* the module's summary, and with the state saved.
C13_ModuleErrorRecorded ==
    (firePc = "idle" /\ fireRun.path = "module_error") =>
        /\ FireRecord.status = "failed"
        /\ FireRecord.error = "e"
        /\ FireRecord.details =
              "mode=supervisor,stage=module_execution"
                  \o (IF fireRun.summary = "none" THEN "" ELSE "," \o fireRun.summary)
        /\ Saved

\* C14: a fire that has called begin_run ends, whatever its path, with its
\* record completed (no status running) and the state saved.
C14_FireCompletesAndSaves ==
    (firePc = "idle" /\ fireRun.id # 0) =>
        /\ FireRecord.id = fireRun.id
        /\ FireRecord.status \in {"success", "failed", "rate_limited"}
        /\ Saved

\* C15: a fire whose module returned after observing a rate limit has a
\* record of status rate_limited whose details hold reason and retry_after.
C15_RateLimitedStatus ==
    (fireRun.path = "module_ok" /\ fireRun.summary \in RateLimited) =>
        /\ FireRecord.status = "rate_limited"
        /\ FireRecord.details = "mode=supervisor," \o fireRun.summary

(***************************************************************************)
(* The IPC server: the other requests of _serve.  The spec SpecIpc is the  *)
(* supervisor with the sync files left alone and every kind of request.    *)
(***************************************************************************)
\* job.next_run_time: <<>> is None, <<n>> the time n ticks from now.
next_run_time(job) == IF job.paused THEN <<>> ELSE <<job.next>>

\* A snapshot that lists only the jobs with a next run time.
job_snapshot_without_paused(js) ==
    { [id |-> id, next_run |-> <<js[id].next>>, missed |-> js[id].next < 0,
       paused |-> FALSE] : id \in {i \in Ids : HasJob(js[i]) /\ ~js[i].paused} }

\* _job_snapshot: one entry for every job scheduler.get_jobs() returns.
job_snapshot(js) ==
    { [id |-> id,
       next_run |-> next_run_time(js[id]),
       missed |-> IF next_run_time(js[id]) # <<>>
                  THEN next_run_time(js[id])[1] < 0 ELSE FALSE,
       paused |-> next_run_time(js[id]) = <<>>] :
        id \in {i \in Ids : HasJob(js[i])} }

\* status: the reply carries the snapshot (in supOp.events).  The request
\* changes nothing, so it is not counted in ipcs.
IpcStatus ==
    /\ ipcAlive
    /\ supOp' = [op |-> "status", id |-> "none", ok |-> TRUE,
                 events |-> job_snapshot(jobs)]
    /\ UNCHANGED <<syncIndex, diskConfig, jobs, instances, poolQueue, executing,
                   dropped, reloaded, edits, ipcs, ipcVars>>

\* A request that is not JSON or not an object (json.loads or request.get
\* raises, caught), or whose command is not one of the five: answered with
\* status error.
IpcBad(kind) ==
    /\ kind \in {"malformed", "unsupported"}
    /\ UNCHANGED <<jobs, ipcPaused>>
    /\ IpcReply(kind, "none", FALSE)

\* A connection that sends nothing: recv returns b"", the loop continues
\* without a reply.
IpcEmpty ==
    /\ UNCHANGED <<jobs, ipcPaused>>
    /\ IpcReply("empty", "none", TRUE)

\* A client that has closed its end when the reply is written:
\* client.sendall raises outside the try, the exception leaves the accept
\* loop and _serve, and the thread ends.
IpcClientGone ==
    /\ ipcAlive
    /\ ipcs < MaxIpcs
    /\ edits + ipcs < MaxOps
    /\ ipcs' = ipcs + 1
    /\ ipcAlive' = FALSE
    /\ supOp' = [op |-> "client_gone", id |-> "none", ok |-> FALSE, events |-> {}]
    /\ UNCHANGED <<syncIndex, diskConfig, jobs, instances, poolQueue, executing,
                   dropped, reloaded, edits, ipcPaused>>

NextIpc ==
    \/ Tick /\ UNCHANGED <<storeVars, fireVars, ipcVars, auxVars>>
    \/ \E id \in Ids : Process(id) /\ UNCHANGED <<storeVars, fireVars, ipcVars, auxVars>>
    \/ WorkerStart /\ UNCHANGED <<storeVars, fireVars, ipcVars, auxVars>>
    \/ WorkerSkip /\ UNCHANGED <<storeVars, fireVars, ipcVars, auxVars>>
    \/ \E id \in Ids : WorkerFinish(id) /\ UNCHANGED <<storeVars, fireVars, ipcVars, auxVars>>
    \/ \E id \in Ids : IpcPause(id) /\ UNCHANGED <<storeVars, fireVars, auxVars>>
    \/ \E id \in Ids : IpcResume(id) /\ UNCHANGED <<storeVars, fireVars, auxVars>>
    \/ \E id \in Ids : IpcDelete(id) /\ UNCHANGED <<storeVars, fireVars, auxVars>>
    \/ \E id \in Ids : IpcStart(id) /\ UNCHANGED <<storeVars, fireVars, auxVars>>
    \/ IpcStatus /\ UNCHANGED <<storeVars, fireVars, auxVars>>
    \/ \E k \in {"malformed", "unsupported"} : IpcBad(k) /\ UNCHANGED <<storeVars, fireVars, auxVars>>
    \/ IpcEmpty /\ UNCHANGED <<storeVars, fireVars, auxVars>>
    \/ IpcClientGone /\ UNCHANGED <<storeVars, fireVars, auxVars>>

SpecIpc == InitSup /\ [][NextIpc]_vars

(***************************************************************************)
(* Claims about the IPC server and the job states.                         *)
(***************************************************************************)
\* C16: no request ends the IPC server, and every bad request that is not
\* empty (malformed, unsupported command, unknown sync id, a scheduler
\* exception) is answered with status error.
C16_ServerSurvives ==
    /\ ipcAlive
    /\ supOp.op \in {"malformed", "unsupported"} => ~supOp.ok
    /\ (/\ supOp.op \in {"pause", "resume", "delete", "start"}
        /\ syncIndex[supOp.id] = NoSync) => ~supOp.ok
    /\ (/\ supOp.op \in {"pause", "resume"}
        /\ ~HasJob(jobs[supOp.id])) => ~supOp.ok

\* C17: in the reply to status, every job of the scheduler has one entry;
\* missed iff its next run time is before now, paused iff it has no next
\* run time, and a paused job has next_run null.
C17_StatusEntries ==
    supOp.op = "status" =>
        /\ {e.id : e \in supOp.events} = {id \in Ids : HasJob(jobs[id])}
        /\ Cardinality(supOp.events) = Cardinality({id \in Ids : HasJob(jobs[id])})
        /\ \A e \in supOp.events :
              /\ e.paused <=> jobs[e.id].paused
              /\ e.paused => (e.next_run = <<>> /\ ~e.missed)
              /\ ~e.paused => e.next_run = <<jobs[e.id].next>>
              /\ e.missed <=> (~jobs[e.id].paused /\ jobs[e.id].next < 0)

\* A status reply lists a paused job and a job whose run time has passed.
C17_Witness ==
    /\ supOp.op = "status"
    /\ \E e \in supOp.events : e.paused
    /\ \E e \in supOp.events : e.missed

\* C18: every job of a sync with a well-formed schedule that no IPC command
\* has paused is scheduled: status reports it with a next run time and
\* paused = false.
C18_ScheduledAfterStart ==
    \A e \in job_snapshot(jobs) :
        (ValidSchedule(syncIndex[e.id]) /\ e.id \notin ipcPaused) =>
            (~e.paused /\ e.next_run # <<>>)

\* C19: a job paused by IPC stays paused (no fire of it is dispatched) until
\* an IPC resume or start of that job; no reload resumes it.
C19_PausedUntilIpc ==
    \A id \in ipcPaused : HasJob(jobs[id]) => jobs[id].paused

\* C20: when start has answered ok for an id, the id has a job in the
\* scheduler whose next run time is now.
C20_StartSchedulesNow ==
    (supOp.op = "start" /\ supOp.ok) =>
        /\ HasJob(jobs[supOp.id])
        /\ ~jobs[supOp.id].paused
        /\ jobs[supOp.id].next = 0

(***************************************************************************)
(* Interval expressions (supervisor.py: _parse_interval).                  *)
(***************************************************************************)
MaxExprLen == 3

Digits == {"0", "1", "3", "4", "5"}
LowerUnits == {"s", "m", "h", "d"}
UpperUnits == {"S", "M", "H", "D"}

\* The characters the enumerated expressions are made of.
ExprChars == {"0", "1", "s", "m", "h", "d", "H", "x", " "}

RECURSIVE SeqsUpTo(_, _)
SeqsUpTo(chars, n) ==
    IF n = 0 THEN {<<>>}
    ELSE LET shorter == SeqsUpTo(chars, n - 1)
         IN  shorter \cup {Append(e, c) : e \in shorter, c \in chars}

\* The expressions _parse_interval is called with.
Expressions ==
    SeqsUpTo(ExprChars, MaxExprLen) \cup
    {<<"1", "h", "3", "0", "m">>, <<"4", "5", "s">>, <<"2", "x">>,
     <<"1", "h", "1", "x">>, <<" ", "4", "5", "s", " ">>, <<"1", "H", "3", "0", "M">>}

\* int() of one decimal digit.
DigitValue(c) ==
    CASE c = "0" -> 0 [] c = "1" -> 1 [] c = "3" -> 3 [] c = "4" -> 4 [] c = "5" -> 5

\* int(match.group(1)).
RECURSIVE int(_)
int(ds) ==
    IF ds = <<>> THEN 0
    ELSE 10 * int(SubSeq(ds, 1, Len(ds) - 1)) + DigitValue(ds[Len(ds)])

\* str.lower() of one character.
lower(c) ==
    CASE c = "S" -> "s" [] c = "M" -> "m" [] c = "H" -> "h" [] c = "D" -> "d"
      [] OTHER -> c

\* str.strip(): leading and trailing whitespace removed.
RECURSIVE strip(_)
strip(e) ==
    IF e = <<>> THEN e
    ELSE IF e[1] = " " THEN strip(Tail(e))
    ELSE IF e[Len(e)] = " " THEN strip(SubSeq(e, 1, Len(e) - 1))
    ELSE e

\* The seconds of one unit, all units counted as seconds.
unit_seconds_flat(unit) == 1

\* The seconds of one unit (after unit = match.group(2).lower()).
unit_seconds(unit) ==
    CASE unit = "s" -> 1 [] unit = "m" -> 60 [] unit = "h" -> 3600 [] unit = "d" -> 86400

\* The pattern (\d+)([smhd]) with re.IGNORECASE matched at index i of e: the
\* index of the unit character, 0 when there is no match at i.  \d+ is
\* greedy and a unit is no digit, so the digits are the whole run from i.
MatchAt(e, i) ==
    IF i > Len(e) \/ e[i] \notin Digits THEN 0
    ELSE LET stops == {j \in i..Len(e) : e[j] \notin Digits}
             j == IF stops = {} THEN 0
                  ELSE CHOOSE k \in stops : \A l \in stops : k <= l
         IN  IF j # 0 /\ e[j] \in LowerUnits \cup UpperUnits THEN j ELSE 0

\* pattern.finditer: the start of the leftmost match at or after index i, 0
\* when there is none.
NextMatch(e, i) ==
    LET starts == {k \in i..Len(e) : MatchAt(e, k) # 0}
    IN  IF starts = {} THEN 0 ELSE CHOOSE k \in starts : \A l \in starts : k <= l

ValueError == [kind |-> "ValueError", total |-> 0]
Returned(total) == [kind |-> "returned", total |-> total]

\* The loop of _parse_interval over the stripped expression e, pos characters
\* consumed and total seconds summed so far, and the check after the loop.
RECURSIVE parse_loop(_, _, _)
parse_loop(e, pos, total) ==
    LET start == NextMatch(e, pos + 1)
    IN  IF start = 0
        THEN IF pos # Len(e) \/ total <= 0 THEN ValueError ELSE Returned(total)
        ELSE IF start - 1 # pos THEN ValueError
        ELSE LET end == MatchAt(e, start)
                 value == int(SubSeq(e, start, end - 1))
             IN  parse_loop(e, end, total + value * unit_seconds(lower(e[end])))

\* _parse_interval(expression).
parse_interval(e) == parse_loop(strip(e), 0, 0)

InitInterval ==
    /\ StoreQuiet
    /\ SupQuiet
    /\ AuxQuietBut("interval")
    /\ expression \in Expressions
    /\ parsed = [kind |-> "idle", total |-> 0]

ParseInterval ==
    /\ parsed.kind = "idle"
    /\ parsed' = parse_interval(expression)
    /\ UNCHANGED expression

NextInterval ==
    ParseInterval /\ UNCHANGED <<storeVars, supVars, fireVars, ipcVars, phaseVars, presVars, cacheVars, raceVars, startVars, assetVars, seqVars, applyVars, feedVars, mirrorVars>>

SpecInterval == InitInterval /\ [][NextInterval]_vars

\* The grammar of the specification, apart from the parser: a token is one or
\* more digits and one unit of `units`; an expression is a concatenation of
\* tokens.
Token(t, units) ==
    /\ Len(t) >= 2
    /\ \A i \in 1..(Len(t) - 1) : t[i] \in Digits
    /\ t[Len(t)] \in units

RECURSIVE Concatenation(_, _)
Concatenation(e, units) ==
    \/ e = <<>>
    \/ \E k \in 2..Len(e) :
          Token(SubSeq(e, 1, k), units) /\ Concatenation(SubSeq(e, k + 1, Len(e)), units)

\* The sum of the component seconds of a concatenation of tokens.
RECURSIVE ComponentSeconds(_)
ComponentSeconds(e) ==
    IF e = <<>> THEN 0
    ELSE LET k == CHOOSE k \in 2..Len(e) : Token(SubSeq(e, 1, k), LowerUnits \cup UpperUnits)
             secs == CASE lower(e[k]) = "s" -> 1 [] lower(e[k]) = "m" -> 60
                       [] lower(e[k]) = "h" -> 3600 [] lower(e[k]) = "d" -> 86400
         IN  int(SubSeq(e, 1, k - 1)) * secs + ComponentSeconds(SubSeq(e, k + 1, Len(e)))

\* C21 as stated: the parser returns the sum of the component seconds for
\* exactly the concatenations of N{s|m|h|d} tokens with a positive total, and
\* fails for every other expression.
C21_OnlyTokenConcatenations ==
    parsed.kind # "idle" =>
        IF Concatenation(expression, LowerUnits) /\ ComponentSeconds(expression) > 0
        THEN parsed = Returned(ComponentSeconds(expression))
        ELSE parsed = ValueError

\* C21, amended: the parser ignores surrounding whitespace and the case of
\* the unit letters; for the expressions that are, so read, concatenations of
\* tokens with a positive total it returns the sum of the component seconds,
\* and it fails for every other expression.
C21_ParseInterval ==
    parsed.kind # "idle" =>
        LET e == strip(expression)
        IN  IF Concatenation(e, LowerUnits \cup UpperUnits) /\ ComponentSeconds(e) > 0
            THEN parsed = Returned(ComponentSeconds(e))
            ELSE parsed = ValueError

C21_Witness ==
    /\ expression = <<"1", "h", "3", "0", "m">>
    /\ parsed = Returned(5400)

(***************************************************************************)
(* Phase selection (playlist_presentation.py: _determine_phase, mode       *)
(* custom).  Times are minutes; a day has day_minutes of them.             *)
(***************************************************************************)
MaxPhases == 3

day_minutes == 1440

PhaseNames == {"morning", "day", "night"}

\* CustomPhase.start after split(":", 1) and int(): <<hour, minute>>; <<>> is
\* a start that is not two integers (ValueError, the phase is skipped).
PhaseStarts == {<<>>, <<0, 0>>, <<6, 0>>, <<9, 0>>, <<22, 0>>}

CustomPhase(name, start) == [name |-> name, start |-> start]

ExampleSchedule ==
    <<CustomPhase("morning", <<6, 0>>), CustomPhase("day", <<9, 0>>),
      CustomPhase("evening", <<18, 0>>), CustomPhase("night", <<22, 0>>)>>

RECURSIVE PhaseLists(_)
PhaseLists(n) ==
    IF n = 0 THEN {<<>>}
    ELSE LET shorter == PhaseLists(n - 1)
         IN  shorter \cup {Append(l, CustomPhase(nm, st)) :
                              l \in shorter, nm \in PhaseNames, st \in PhaseStarts}

\* options.phases.custom: validate_mode rejects an empty list.
CustomSchedules == (PhaseLists(MaxPhases) \ {<<>>}) \cup {ExampleSchedule}

\* The instants of the day phase selection is asked for.
Instants ==
    {0, 1, 329, 330, 359, 360, 361, 435, 539, 540, 1079, 1080, 1319, 1320, 1410,
     1438, 1439}

\* schedule[phase.name] = start on a dict kept as a sequence of items in
\* insertion order: a name already present keeps its place.
DictSet(items, name, start) ==
    IF \E i \in 1..Len(items) : items[i].name = name
    THEN [i \in 1..Len(items) |->
             IF items[i].name = name THEN [name |-> name, start |-> start] ELSE items[i]]
    ELSE Append(items, [name |-> name, start |-> start])

\* _build_custom_schedule: phases whose start does not parse are skipped.
RECURSIVE build_custom_schedule(_)
build_custom_schedule(phases) ==
    IF phases = <<>> THEN <<>>
    ELSE LET before == build_custom_schedule(SubSeq(phases, 1, Len(phases) - 1))
             phase == phases[Len(phases)]
         IN  IF phase.start = <<>> THEN before
             ELSE DictSet(before, phase.name, 60 * phase.start[1] + phase.start[2])

\* The items in insertion order, not sorted.
sorted_items_unsorted(items) == items

\* sorted(schedule.items(), key=start): a stable sort.
RECURSIVE sorted_items(_)
sorted_items(items) ==
    IF items = <<>> THEN <<>>
    ELSE LET before == sorted_items(SubSeq(items, 1, Len(items) - 1))
             item == items[Len(items)]
             k == Cardinality({i \in 1..Len(before) : before[i].start <= item.start})
         IN  SubSeq(before, 1, k) \o <<item>> \o SubSeq(before, k + 1, Len(before))

\* The loop of _phase_from_schedule from index idx on, then the fallback.
RECURSIVE phase_loop(_, _, _)
phase_loop(sorted, idx, t) ==
    IF idx > Len(sorted) THEN sorted[Len(sorted)].name
    ELSE LET start == sorted[idx].start
             next_start == sorted[(idx % Len(sorted)) + 1].start
             interval == IF next_start - start <= 0
                         THEN next_start - start + day_minutes
                         ELSE next_start - start
             delta == IF t - start < 0 THEN t - start + day_minutes ELSE t - start
         IN  IF 0 <= delta /\ delta < interval THEN sorted[idx].name
             ELSE phase_loop(sorted, idx + 1, t)

\* _phase_from_schedule(schedule, now, default).
phase_from_schedule(schedule, t, default) ==
    IF schedule = <<>> THEN default
    ELSE phase_loop(sorted_items(schedule), 1, t)

InitPhase ==
    /\ StoreQuiet
    /\ SupQuiet
    /\ AuxQuietBut("phase")
    /\ customPhases \in CustomSchedules
    /\ localNow \in Instants
    /\ phaseResult = "idle"

\* _determine_phase, mode custom.
DeterminePhase ==
    /\ phaseResult = "idle"
    /\ phaseResult' =
           phase_from_schedule(build_custom_schedule(customPhases), localNow, "default")
    /\ UNCHANGED <<customPhases, localNow>>

NextPhase ==
    DeterminePhase /\ UNCHANGED <<storeVars, supVars, fireVars, ipcVars, intervalVars, presVars, cacheVars, raceVars, startVars, assetVars, seqVars, applyVars, feedVars, mirrorVars>>

SpecPhase == InitPhase /\ [][NextPhase]_vars

\* The window of the item at start s in a schedule: from s to the nearest
\* later start, around midnight; the whole day when s is the only start.
WindowHolds(schedule, s, t) ==
    LET gaps == {((schedule[i].start - s) + day_minutes) % day_minutes :
                    i \in 1..Len(schedule)} \ {0}
        width == IF gaps = {} THEN day_minutes
                 ELSE CHOOSE g \in gaps : \A h \in gaps : g <= h
    IN  ((t - s) + day_minutes) % day_minutes < width

SortedWindowHolds(sorted, idx, t) ==
    LET start == sorted[idx].start
        next_start == sorted[(idx % Len(sorted)) + 1].start
        width == IF idx = Len(sorted)
                 THEN (IF next_start - start <= 0
                       THEN next_start - start + day_minutes
                       ELSE next_start - start)
                 ELSE next_start - start
    IN  ((t - start) + day_minutes) % day_minutes < width

\* C36: phase selection returns the phase whose window [start_i, start_{i+1})
\* in sorted start order contains now, the last window wrapping over
\* midnight, also when two phases have the same start: the empty window of
\* the earlier-sorted one never matches.
C36_WindowInSortedOrder ==
    LET sorted == sorted_items(build_custom_schedule(customPhases))
    IN  (phaseResult # "idle" /\ sorted # <<>>) =>
            \E idx \in 1..Len(sorted) :
                /\ sorted[idx].name = phaseResult
                /\ SortedWindowHolds(sorted, idx, localNow)

(***************************************************************************)
(* Presentation engine (playlist_presentation.py:                          *)
(* PlaylistPresentationModule.run).  Two features, cover and title; the    *)
(* phase mode is none, so the phase is "default"; failure_mode is skip.    *)
(* The presentation state is carried from one fire to the next.            *)
(***************************************************************************)
MaxWindow == 2
MaxPresFires == 3

Features == {"cover", "title"}
GroupKey == "theme"

\* The candidates _collect_candidates assembles for each feature.
Candidates ==
    [cover |-> <<"c0", "c1", "c2">>, title |-> <<"t0", "t1", "t2">>]

SelectionModes == {"sequential", "random", "weighted_random"}

\* FeatureOptions: enabled, selection.mode, selection.dedupe_window,
\* selection.group_key ("none": not set) and cadence.multiplier.
FeatureOptions(enabled, mode, window, group_key, multiplier) ==
    [enabled |-> enabled, mode |-> mode, dedupe_window |-> window,
     group_key |-> group_key, multiplier |-> multiplier]

\* The options of the jobs considered: the features have one dedupe window
\* and are both in the group or both outside it; the title's cadence
\* multiplier is 1 or 2.  interval_seconds is 2 ticks.
PresentationOptions ==
    {[resolver |-> r, interval_seconds |-> 2,
      cover |-> FeatureOptions(ce, cm, w, g, 1),
      title |-> FeatureOptions(te, tm, w, g, m)] :
        r \in {"playlist_id", "playlist_name"},
        ce \in BOOLEAN, cm \in SelectionModes,
        te \in BOOLEAN, tm \in SelectionModes,
        w \in 0..MaxWindow, g \in {"none", GroupKey}, m \in {1, 2}}

\* A feature state dict: cursor, history and last_value ("none": absent).
\* run_count and last_value_at, which only phase_overrides reads, are left
\* out.
NewFeatureState ==
    [cursor |-> 0, history |-> <<>>, last_value |-> "none"]

\* The presentation state of a job that never ran: last_updated_at = 0 and
\* last_phase = "none" are absent keys; slots holds the state dicts of the
\* features and of the group; cache is the group's cache, a set of
\* <<phase, run_marker, value>>; details_title is features.details.title.
NewPresentationState ==
    [global_run_count |-> 0, last_phase |-> "none", last_updated_at |-> 0,
     slots |-> [s \in Features \cup {GroupKey} |-> NewFeatureState],
     cache |-> {}, details_title |-> "none"]

\* _resolve_feature_state: the dict a feature works on, its own or the one
\* of its group.
resolve_feature_state(name, options) ==
    IF options.group_key = "none" THEN name ELSE options.group_key

\* history[-window:] as a set, for window > 0.
RecentHistory(history, window) ==
    {history[i] : i \in {j \in 1..Len(history) : j > Len(history) - window}}

\* _trim_history.
trim_history(history, window) ==
    IF window <= 0 THEN <<>>
    ELSE IF Len(history) > window * 2
    THEN SubSeq(history, Len(history) - window * 2 + 1, Len(history))
    ELSE history

\* _within_feature_cadence, no phase_overrides.
within_feature_cadence(options, global_count) ==
    ~(options.multiplier > 1 /\ global_count % options.multiplier # 0)

\* _select_sequential, restart_policy loop and direction 1: the value and
\* the cursor stored.
select_sequential(values, cursor, force_next) ==
    LET c0 == cursor % Len(values)
        c1 == IF force_next THEN (c0 + 1) % Len(values) ELSE c0
    IN  [value |-> values[c1 + 1], cursor |-> c1 + 1]

\* The values _select_random_alternative chooses from.
random_alternatives(values, history, window) ==
    {values[i] : i \in 1..Len(values)} \ RecentHistory(history, window)

\* A repeat within the window is kept although an alternative exists.
dedupe_random_keep(value, alt, recent, alternatives) == value

\* _select_candidate, lines 770-775 for the random modes: a value of the
\* recent history is replaced by the alternative drawn, if there is one.
dedupe_random(value, alt, recent, alternatives) ==
    IF value \in recent /\ alternatives # {} THEN alt ELSE value

\* A cache that never answers.
CachedValueMiss(cache, phase, run_marker) == "none"

\* The value cached for the group under (phase, run_marker), "none" if none.
CachedValue(cache, phase, run_marker) ==
    IF \E e \in cache : e[1] = phase /\ e[2] = run_marker
    THEN (CHOOSE e \in cache : e[1] = phase /\ e[2] = run_marker)[3]
    ELSE "none"

\* _select_candidate on the feature state fs: pick is the index rng.choice
\* (or the weighted draw) gives, alt the value rng.choice gives among the
\* alternatives.  The result: the value, whether it came from the group's
\* cache, the feature state and the cache after the call.
select_candidate(options, values, fs, cache, phase, run_marker, t, pick, alt) ==
    LET grouped == options.group_key # "none"
        cached == IF grouped THEN CachedValue(cache, phase, run_marker) ELSE "none"
        window == options.dedupe_window
        recent == IF window > 0 THEN RecentHistory(fs.history, window) ELSE {}
        first == IF options.mode = "sequential"
                 THEN select_sequential(values, fs.cursor, FALSE)
                 ELSE [value |-> values[pick], cursor |-> fs.cursor]
        again == select_sequential(values, first.cursor, TRUE)
        second ==
            IF first.value \notin recent THEN first
            ELSE IF options.mode = "sequential" THEN again
            ELSE [value |-> dedupe_random(first.value, alt, recent,
                                          random_alternatives(values, fs.history, window)),
                  cursor |-> first.cursor]
    IN  IF cached # "none"
        THEN [value |-> cached, reused |-> TRUE, fs |-> fs, cache |-> cache]
        ELSE [value |-> second.value, reused |-> FALSE,
              fs |-> [fs EXCEPT !.cursor = second.cursor],
              cache |-> IF grouped
                        THEN {e \in cache : ~(e[1] = phase /\ e[2] = run_marker)}
                                 \cup {<<phase, run_marker, second.value>>}
                        ELSE cache]

NoOutcome(reason) ==
    [should_apply |-> FALSE, value |-> "none", reason |-> reason, reused |-> FALSE,
     recent |-> {}, alternatives |-> {}]

\* _determine_feature_outcome for the feature `name` on the presentation
\* state p: the state after it and the FeatureOutcome, with the recent
\* history and the alternatives the selection saw.
determine_feature_outcome(name, options, p, phase, t, pick, alt) ==
    LET slot == resolve_feature_state(name, options)
        fs == p.slots[slot]
        values == Candidates[name]
        sel == select_candidate(options, values, fs, p.cache, phase,
                                p.global_run_count, t, pick, alt)
        history == trim_history(Append(sel.fs.history, sel.value), options.dedupe_window)
    IN  IF ~options.enabled THEN [p |-> p, outcome |-> NoOutcome("disabled")]
        ELSE IF ~within_feature_cadence(options, p.global_run_count)
        THEN [p |-> p, outcome |-> NoOutcome("cadence_skip")]
        ELSE [p |-> [p EXCEPT !.slots[slot] =
                                  [sel.fs EXCEPT !.last_value = sel.value,
                                                 !.history = history],
                              !.cache = sel.cache],
              outcome |-> [should_apply |-> TRUE, value |-> sel.value,
                           reason |-> "none", reused |-> sel.reused,
                           recent |-> IF options.dedupe_window > 0
                                      THEN RecentHistory(fs.history, options.dedupe_window)
                                      ELSE {},
                           alternatives |->
                               random_alternatives(values, fs.history,
                                                   options.dedupe_window)]]

\* _should_execute_now.
should_execute_now(p, t, interval) ==
    IF p.last_updated_at = 0 THEN TRUE ELSE t - p.last_updated_at >= interval

\* _remaining_interval.
remaining_interval(p, t, interval) ==
    IF p.last_updated_at = 0 THEN 0
    ELSE IF interval - (t - p.last_updated_at) > 0
    THEN interval - (t - p.last_updated_at) ELSE 0

\* The remote calls of _resolve_playlist: none for a playlist id, the
\* playlist listing for a playlist name.
resolve_playlist_calls(options) ==
    IF options.resolver = "playlist_id" THEN {} ELSE {"current_user_playlists"}

\* The ticks from one fire of the job to the next: its schedule fires it
\* every tick, half of interval_seconds.
FireGaps == {1}

NoFireYet ==
    [status |-> "none", remaining |-> 0, remote |-> {}, gated |-> FALSE,
     outcome |-> [f \in Features |-> NoOutcome("none")]]

InitPres ==
    /\ StoreQuiet
    /\ SupQuiet
    /\ AuxQuietBut("presentation")
    /\ presOptions \in PresentationOptions
    /\ pres = NewPresentationState
    /\ presNow = 1
    /\ presFires = 0
    /\ presLast = NoFireYet

\* run() returns early: no feature is enabled.
PresRunNothingEnabled(dt) ==
    /\ presFires < MaxPresFires
    /\ ~presOptions.cover.enabled /\ ~presOptions.title.enabled
    /\ presNow' = presNow + dt
    /\ presFires' = presFires + 1
    /\ presLast' = [NoFireYet EXCEPT !.remote = resolve_playlist_calls(presOptions)]
    /\ UNCHANGED <<presOptions, pres>>

\* run() returns early: the interval since last_updated_at has not elapsed.
PresRunGated(dt) ==
    /\ presFires < MaxPresFires
    /\ presOptions.cover.enabled \/ presOptions.title.enabled
    /\ ~should_execute_now(pres, presNow + dt, presOptions.interval_seconds)
    /\ presNow' = presNow + dt
    /\ presFires' = presFires + 1
    /\ presLast' = [NoFireYet EXCEPT
                       !.status = "skipped_interval",
                       !.remaining = remaining_interval(pres, presNow + dt,
                                                        presOptions.interval_seconds),
                       !.remote = resolve_playlist_calls(presOptions),
                       !.gated = TRUE]
    /\ UNCHANGED <<presOptions, pres>>

\* The draws the random generator can give a feature's selection on the
\* presentation state p: the index of the first choice (one value when
\* nothing is drawn: the feature is not resolved, the mode is sequential or
\* the group's cache answers) and the alternative ("none" when none is
\* drawn).
Draws(name, options, p, phase) ==
    options.enabled /\ options.mode # "sequential"
    /\ within_feature_cadence(options, p.global_run_count)
    /\ (options.group_key = "none"
        \/ CachedValue(p.cache, phase, p.global_run_count) = "none")

PickDraws(name, options, p, phase) ==
    IF Draws(name, options, p, phase) THEN 1..Len(Candidates[name]) ELSE {1}

AltDraws(name, options, p, phase, pick) ==
    LET fs == p.slots[resolve_feature_state(name, options)]
        alternatives == random_alternatives(Candidates[name], fs.history,
                                            options.dedupe_window)
    IN  IF Draws(name, options, p, phase) /\ options.dedupe_window > 0
           /\ Candidates[name][pick] \in RecentHistory(fs.history, options.dedupe_window)
           /\ alternatives # {}
        THEN alternatives ELSE {"none"}

\* The end of run() after the outcomes c of the cover and ti of the title:
\* the cover is uploaded and the details are changed.  Each remote call
\* succeeds or raises (failure_mode skip: logged, the run goes on); applied
\* tells whether one of the calls made succeeded (updates_applied).
PresApply(t, c, ti, applied) ==
    LET coverCall == c.outcome.should_apply
        newTitle == ti.outcome.should_apply /\ ti.outcome.value # ti.p.details_title
        p1 == IF newTitle THEN [ti.p EXCEPT !.details_title = ti.outcome.value]
              ELSE ti.p
    IN  /\ applied => coverCall \/ newTitle
        /\ pres' = IF applied THEN [p1 EXCEPT !.last_updated_at = t] ELSE p1
        /\ presLast' =
               [status |-> IF applied THEN "updated" ELSE "noop",
                remaining |-> 0,
                remote |-> resolve_playlist_calls(presOptions)
                           \cup (IF coverCall THEN {"upload_playlist_cover"} ELSE {})
                           \cup (IF newTitle THEN {"update_playlist_details"} ELSE {}),
                gated |-> FALSE,
                outcome |-> [f \in Features |->
                                IF f = "cover" THEN c.outcome ELSE ti.outcome]]

\* run() past the gate: the run count is advanced, the features are
\* resolved, cover then title, and the updates are applied.
PresRun(dt) ==
    /\ presFires < MaxPresFires
    /\ presOptions.cover.enabled \/ presOptions.title.enabled
    /\ should_execute_now(pres, presNow + dt, presOptions.interval_seconds)
    /\ LET t == presNow + dt
           phase == "default"
           p0 == [pres EXCEPT !.last_phase = phase, !.global_run_count = @ + 1]
       IN  \E pickC \in PickDraws("cover", presOptions.cover, p0, phase) :
           \E altC \in AltDraws("cover", presOptions.cover, p0, phase, pickC) :
              LET c == determine_feature_outcome("cover", presOptions.cover, p0, phase,
                                                 t, pickC, altC)
              IN  \E pickT \in PickDraws("title", presOptions.title, c.p, phase) :
                  \E altT \in AltDraws("title", presOptions.title, c.p, phase, pickT) :
                     LET ti == determine_feature_outcome("title", presOptions.title,
                                                         c.p, phase, t, pickT, altT)
                     IN  \E applied \in BOOLEAN : PresApply(t, c, ti, applied)
    /\ presNow' = presNow + dt
    /\ presFires' = presFires + 1
    /\ UNCHANGED presOptions

NextPres ==
    \/ \E dt \in FireGaps : PresRunNothingEnabled(dt)
          /\ UNCHANGED <<storeVars, supVars, fireVars, ipcVars, intervalVars, phaseVars, cacheVars, raceVars, startVars, assetVars, seqVars, applyVars, feedVars, mirrorVars>>
    \/ \E dt \in FireGaps : PresRunGated(dt)
          /\ UNCHANGED <<storeVars, supVars, fireVars, ipcVars, intervalVars, phaseVars, cacheVars, raceVars, startVars, assetVars, seqVars, applyVars, feedVars, mirrorVars>>
    \/ \E dt \in FireGaps : PresRun(dt)
          /\ UNCHANGED <<storeVars, supVars, fireVars, ipcVars, intervalVars, phaseVars, cacheVars, raceVars, startVars, assetVars, seqVars, applyVars, feedVars, mirrorVars>>

SpecPres == InitPres /\ [][NextPres]_vars

(***************************************************************************)
(* Claims about the presentation engine.                                   *)
(***************************************************************************)
RandomModes == {"random", "weighted_random"}

\* The distinct candidates of a feature.
CandidateSet(f) == {Candidates[f][i] : i \in 1..Len(Candidates[f])}

\* The fire just made ran the selection of feature f in a random mode with a
\* dedupe window W >= 1 and more than W distinct candidates.
RandomSelection(f) ==
    /\ presFires' = presFires + 1
    /\ presLast'.outcome[f].should_apply
    /\ ~presLast'.outcome[f].reused
    /\ presOptions[f].mode \in RandomModes
    /\ presOptions[f].dedupe_window >= 1
    /\ Cardinality(CandidateSet(f)) > presOptions[f].dedupe_window

GroupedFire ==
    /\ presOptions.cover.group_key # "none"
    /\ presOptions.cover.group_key = presOptions.title.group_key
    /\ presLast.outcome.cover.should_apply
    /\ presLast.outcome.title.should_apply

\* C24: within one fire the enabled features that share a group key and pass
\* cadence resolve to the same value; the first computes it and the later
\* one reuses it without running its own selection.
C24_GroupConsistency ==
    GroupedFire =>
        /\ presLast.outcome.title.value = presLast.outcome.cover.value
        /\ ~presLast.outcome.cover.reused
        /\ presLast.outcome.title.reused

C24_Witness ==
    /\ GroupedFire
    /\ presOptions.cover.mode = "random"
    /\ presOptions.title.mode = "sequential"
    /\ presLast.outcome.title.reused
    /\ presFires = 3

\* C25: when cover and title share a group key and the cover, resolved
\* first, picks index i of its candidate list, the title resolves on the same
\* fire to the entry at index i of the title's own candidate list.
C25_TitleAtCoverIndex ==
    GroupedFire =>
        \A i \in 1..Len(Candidates.cover) :
            presLast.outcome.cover.value = Candidates.cover[i]
                => presLast.outcome.title.value = Candidates.title[i]

\* C30: a gated fire reports skipped_interval with remaining = interval -
\* elapsed, leaves the presentation state as it was and makes no remote call;
\* last_updated_at is stamped only by a fire that applied an update.
C30_GatedFireChangesNothing ==
    [][/\ (presFires' = presFires + 1 /\ presLast'.gated) =>
              /\ presLast'.status = "skipped_interval"
              /\ presLast'.remaining =
                     presOptions.interval_seconds - (presNow' - pres.last_updated_at)
              /\ pres' = pres
              /\ presLast'.remote = {}
       /\ pres'.last_updated_at # pres.last_updated_at =>
              presLast'.status = "updated"]_vars

(***************************************************************************)
(* The shared playlist cache (supervisor.py: _refresh_shared_playlist_cache *)
(* and the places of _run_sync that call it).  Each playlist_cache job     *)
(* keeps its payload (playlists, last_refreshed) in its state file; the    *)
(* supervisor holds one payload in memory and the mtimes it has seen.      *)
(***************************************************************************)
\* The fires of one behaviour of the cache scenario.
MaxCacheFires == 4

\* Supervisor._playlist_cache_syncs: the jobs of type playlist_cache, in the
\* order of the configuration.
playlist_cache_syncs == <<"a", "b">>

CacheIds == {playlist_cache_syncs[i] : i \in 1..Len(playlist_cache_syncs)}

\* A state file of a playlist_cache job: st_mtime, whether data["playlists"]
\* is a list, and data["last_refreshed"] (0: the key is missing).
StateFile(mtime, playlists, last_refreshed) ==
    [exists |-> TRUE, mtime |-> mtime, playlists |-> playlists,
     last_refreshed |-> last_refreshed]
NoStateFile ==
    [exists |-> FALSE, mtime |-> 0, playlists |-> FALSE, last_refreshed |-> 0]

\* The value of _shared_playlist_cache: the payload of job `from`, stamped
\* last_refreshed.  NoCache is None.
CachePayload(from, last_refreshed) == [from |-> from, last_refreshed |-> last_refreshed]
NoCache == CachePayload("none", 0)

\* The loop of _refresh_shared_playlist_cache over the cache jobs from the
\* i-th on; acc is best_cache and _playlist_cache_mtimes so far.
RECURSIVE refresh_loop(_, _, _, _, _)
refresh_loop(i, files, force, held, acc) ==
    IF i > Len(playlist_cache_syncs) THEN acc
    ELSE LET id == playlist_cache_syncs[i]
             f == files[id]
             seen == acc.mtimes[id]
             skipped ==
                 \/ ~f.exists
                 \/ ~force /\ held # NoCache /\ seen # 0 /\ seen >= f.mtime
                 \/ ~f.playlists
             refreshed_at ==
                 IF f.last_refreshed # 0 THEN f.last_refreshed ELSE f.mtime
             better ==
                 acc.best = NoCache \/ refreshed_at > acc.best.last_refreshed
         IN  refresh_loop(i + 1, files, force, held,
                 IF skipped THEN acc
                 ELSE [best |-> IF better THEN CachePayload(id, refreshed_at)
                                ELSE acc.best,
                       mtimes |-> [acc.mtimes EXCEPT ![id] = f.mtime]])

\* _refresh_shared_playlist_cache(force): the cache and the mtimes after it.
refresh_shared_playlist_cache(files, held, mtimes, force) ==
    IF Len(playlist_cache_syncs) = 0 THEN [cache |-> NoCache, mtimes |-> mtimes]
    ELSE LET r == refresh_loop(1, files, force, held,
                               [best |-> NoCache, mtimes |-> mtimes])
         IN  [cache |-> IF r.best = NoCache THEN held ELSE r.best,
              mtimes |-> r.mtimes]

\* How a fire of a playlist_cache job ends: the Spotify client cannot be
\* built (state saved, return), the module raises (state saved in finally),
\* or the module stores a fresh payload.
CacheFireOutcomes == {"spotify_init", "module_execution", "success"}

InitCache ==
    /\ StoreQuiet
    /\ SupQuiet
    /\ AuxQuietBut("cache")
    /\ cacheFiles = [id \in CacheIds |-> NoStateFile]
    /\ sharedPlaylistCache = NoCache
    /\ playlistCacheMtimes = [id \in CacheIds |-> 0]
    /\ cacheClock = 0

\* _run_sync of a playlist_cache job: the unforced refresh at its start, the
\* module, the save of the state file, and the forced refresh of the finally
\* clause, which the early return of a failed client construction skips.
CacheJobFire(id, outcome) ==
    /\ cacheClock < MaxCacheFires
    /\ LET t == cacheClock + 1
           start == refresh_shared_playlist_cache(cacheFiles, sharedPlaylistCache,
                                                  playlistCacheMtimes, FALSE)
           old == cacheFiles[id]
           saved == IF outcome = "success" THEN StateFile(t, TRUE, t)
                    ELSE StateFile(t, old.playlists, old.last_refreshed)
           files == [cacheFiles EXCEPT ![id] = saved]
           end == IF outcome = "spotify_init" THEN start
                  ELSE refresh_shared_playlist_cache(files, start.cache,
                                                     start.mtimes, TRUE)
       IN  /\ cacheClock' = t
           /\ cacheFiles' = files
           /\ sharedPlaylistCache' = end.cache
           /\ playlistCacheMtimes' = end.mtimes

\* _run_sync of a job of another type: the unforced refresh at its start.
ConsumerFire ==
    LET start == refresh_shared_playlist_cache(cacheFiles, sharedPlaylistCache,
                                               playlistCacheMtimes, FALSE)
    IN  /\ sharedPlaylistCache' = start.cache
        /\ playlistCacheMtimes' = start.mtimes
        /\ UNCHANGED <<cacheFiles, cacheClock>>

NextCache ==
    \/ \E id \in CacheIds, outcome \in CacheFireOutcomes :
          /\ CacheJobFire(id, outcome)
          /\ UNCHANGED <<storeVars, supVars, fireVars, ipcVars, intervalVars, phaseVars, presVars, raceVars, startVars, assetVars, seqVars, applyVars, feedVars, mirrorVars>>
    \/ /\ ConsumerFire
       /\ UNCHANGED <<storeVars, supVars, fireVars, ipcVars, intervalVars, phaseVars, presVars, raceVars, startVars, assetVars, seqVars, applyVars, feedVars, mirrorVars>>

SpecCache == InitCache /\ [][NextCache]_vars

\* C26: a Refresh never replaces the cache with a payload whose refreshed_at
\* is older than the one it already holds (the cache holds the payload with
\* the largest refreshed_at among the valid state files).
C26_RefreshNeverOlder ==
    [][(sharedPlaylistCache # NoCache /\ sharedPlaylistCache' # NoCache)
         => sharedPlaylistCache'.last_refreshed >= sharedPlaylistCache.last_refreshed]_vars

(***************************************************************************)
(* The reload thread and the IPC thread, statement by statement            *)
(* (supervisor.py: _reload_configuration, _handle_ipc_command).  The       *)
(* reload runs inside `with self._jobs_lock`; the IPC handler reads the    *)
(* index and calls the scheduler without acquiring it.                     *)
(***************************************************************************)
IpcCommands == {"pause", "resume", "delete", "start"}

\* The request of the IPC handler, its local `sync` and its answer.
IpcRequest(command, id, sync, status) ==
    [command |-> command, id |-> id, sync |-> sync, status |-> status]
NoRequest == IpcRequest("none", "none", NoSync, "none")

\* The sets removed, common and added of _reload_configuration.
ReloadSets(index, new) ==
    [removed |-> Defined(index) \ Defined(new),
     common |-> Defined(new) \cap Defined(index),
     added |-> Defined(new) \ Defined(index)]
NoReload == [removed |-> {}, common |-> {}, added |-> {}]

InitRace ==
    /\ SupStarted
    /\ AuxQuietBut("race")
    /\ jobsLock = "none"
    /\ reloadPc = "idle"
    /\ reloadNew = <<>>
    /\ reloadTodo = NoReload
    /\ ipcPc = "idle"
    /\ ipcReq = NoRequest

\* The watcher saw a change: _reload_configuration acquires the lock, loads
\* the configuration and computes the three sets.
ReloadEnter ==
    /\ reloadPc = "idle"
    /\ jobsLock = "none"
    /\ ~reloaded
    /\ Loadable(diskConfig)
    /\ jobsLock' = "reload"
    /\ reloadPc' = "diff"
    /\ reloadNew' = diskConfig
    /\ reloadTodo' = ReloadSets(syncIndex, diskConfig)
    /\ reloaded' = TRUE
    /\ UNCHANGED <<syncIndex, diskConfig, jobs, instances, poolQueue, executing,
                   dropped, edits, ipcs, supOp, ipcPc, ipcReq>>

\* One turn of `for sync_id in removed`: remove_job.
ReloadRemove(id) ==
    /\ reloadPc = "diff"
    /\ id \in reloadTodo.removed
    /\ jobs' = [jobs EXCEPT ![id] = NoJob]
    /\ reloadTodo' = [reloadTodo EXCEPT !.removed = @ \ {id}]
    /\ UNCHANGED <<syncIndex, diskConfig, instances, poolQueue, executing, dropped,
                   reloaded, edits, ipcs, supOp, jobsLock, reloadPc, reloadNew,
                   ipcPc, ipcReq>>

\* One turn of `for sync_id in common`: a changed entry is assigned to the
\* index and registered.
ReloadCommon(id) ==
    /\ reloadPc = "diff"
    /\ reloadTodo.removed = {}
    /\ id \in reloadTodo.common
    /\ IF reloadNew[id] # syncIndex[id]
       THEN /\ syncIndex' = [syncIndex EXCEPT ![id] = reloadNew[id]]
            /\ jobs' = [jobs EXCEPT ![id] = register_sync_job(reloadNew[id], TRUE, @)]
       ELSE UNCHANGED <<syncIndex, jobs>>
    /\ reloadTodo' = [reloadTodo EXCEPT !.common = @ \ {id}]
    /\ UNCHANGED <<diskConfig, instances, poolQueue, executing, dropped, reloaded,
                   edits, ipcs, supOp, jobsLock, reloadPc, reloadNew, ipcPc, ipcReq>>

\* One turn of `for sync_id in added`.
ReloadAdd(id) ==
    /\ reloadPc = "diff"
    /\ reloadTodo.removed = {} /\ reloadTodo.common = {}
    /\ id \in reloadTodo.added
    /\ syncIndex' = [syncIndex EXCEPT ![id] = reloadNew[id]]
    /\ jobs' = [jobs EXCEPT ![id] = register_sync_job(reloadNew[id], TRUE, @)]
    /\ reloadTodo' = [reloadTodo EXCEPT !.added = @ \ {id}]
    /\ UNCHANGED <<diskConfig, instances, poolQueue, executing, dropped, reloaded,
                   edits, ipcs, supOp, jobsLock, reloadPc, reloadNew, ipcPc, ipcReq>>

\* The end of the with block: the lock is released.
ReloadExit ==
    /\ reloadPc = "diff"
    /\ reloadTodo = NoReload
    /\ jobsLock' = "none"
    /\ reloadPc' = "idle"
    /\ reloadNew' = <<>>
    /\ UNCHANGED <<supVars, reloadTodo, ipcPc, ipcReq>>

\* _handle_ipc_command receives pause, resume, delete or start and tests
\* `sync_id not in self._sync_index`.
IpcEnter(command, id) ==
    /\ ipcPc = "idle"
    /\ ipcs < MaxIpcs
    /\ edits + ipcs < MaxOps
    /\ ipcs' = ipcs + 1
    /\ IF IpcUnknown(id)
       THEN /\ ipcPc' = "idle"
            /\ ipcReq' = IpcRequest(command, id, NoSync, "error")
       ELSE /\ ipcPc' = "known"
            /\ ipcReq' = IpcRequest(command, id, NoSync, "pending")
    /\ UNCHANGED <<syncIndex, diskConfig, jobs, instances, poolQueue, executing,
                   dropped, reloaded, edits, supOp, jobsLock, reloadPc, reloadNew,
                   reloadTodo>>

\* pause_job, resume_job or remove_job; the scheduler raises for an id
\* without a job, which _serve answers as an error.
IpcSchedulerCall ==
    /\ ipcPc = "known"
    /\ ipcReq.command \in {"pause", "resume", "delete"}
    /\ LET id == ipcReq.id
       IN  IF ~HasJob(jobs[id])
           THEN /\ UNCHANGED jobs
                /\ ipcReq' = [ipcReq EXCEPT !.status = "error"]
           ELSE /\ ipcReq' = [ipcReq EXCEPT !.status = "ok"]
                /\ \/ /\ ipcReq.command = "pause"
                      /\ jobs' = [jobs EXCEPT ![id].paused = TRUE, ![id].next = 0]
                   \/ /\ ipcReq.command = "resume"
                      /\ \E n \in 1..jobs[id].trig :
                            jobs' = [jobs EXCEPT ![id].paused = FALSE, ![id].next = n]
                   \/ /\ ipcReq.command = "delete"
                      /\ jobs' = [jobs EXCEPT ![id] = NoJob]
    /\ ipcPc' = "idle"
    /\ UNCHANGED <<syncIndex, diskConfig, instances, poolQueue, executing, dropped,
                   reloaded, edits, ipcs, supOp, jobsLock, reloadPc, reloadNew,
                   reloadTodo>>

\* start: `sync = self._sync_index[sync_id]`.
IpcReadSync ==
    /\ ipcPc = "known"
    /\ ipcReq.command = "start"
    /\ ipcReq' = [ipcReq EXCEPT !.sync = syncIndex[ipcReq.id]]
    /\ ipcPc' = "read"
    /\ UNCHANGED <<supVars, jobsLock, reloadPc, reloadNew, reloadTodo>>

\* start: `self._register_sync_job(sync, immediate=True)`.
IpcRegister ==
    /\ ipcPc = "read"
    /\ jobs' = [jobs EXCEPT ![ipcReq.id] = register_sync_job(ipcReq.sync, TRUE, @)]
    /\ ipcReq' = [ipcReq EXCEPT !.status = "ok"]
    /\ ipcPc' = "idle"
    /\ UNCHANGED <<syncIndex, diskConfig, instances, poolQueue, executing, dropped,
                   reloaded, edits, ipcs, supOp, jobsLock, reloadPc, reloadNew,
                   reloadTodo>>

NextRace ==
    \/ \E id \in Ids : \E c \in SyncFiles(id) : EditConfig(id, c) /\ UNCHANGED <<storeVars, fireVars, ipcVars, auxVars>>
    \/ ReloadEnter /\ UNCHANGED <<storeVars, fireVars, ipcVars, intervalVars, phaseVars, presVars, cacheVars, startVars, assetVars, seqVars, applyVars, feedVars, mirrorVars>>
    \/ \E id \in Ids : ReloadRemove(id) /\ UNCHANGED <<storeVars, fireVars, ipcVars, intervalVars, phaseVars, presVars, cacheVars, startVars, assetVars, seqVars, applyVars, feedVars, mirrorVars>>
    \/ \E id \in Ids : ReloadCommon(id) /\ UNCHANGED <<storeVars, fireVars, ipcVars, intervalVars, phaseVars, presVars, cacheVars, startVars, assetVars, seqVars, applyVars, feedVars, mirrorVars>>
    \/ \E id \in Ids : ReloadAdd(id) /\ UNCHANGED <<storeVars, fireVars, ipcVars, intervalVars, phaseVars, presVars, cacheVars, startVars, assetVars, seqVars, applyVars, feedVars, mirrorVars>>
    \/ ReloadExit /\ UNCHANGED <<storeVars, fireVars, ipcVars, intervalVars, phaseVars, presVars, cacheVars, startVars, assetVars, seqVars, applyVars, feedVars, mirrorVars>>
    \/ \E command \in IpcCommands, id \in Ids : IpcEnter(command, id) /\ UNCHANGED <<storeVars, fireVars, ipcVars, intervalVars, phaseVars, presVars, cacheVars, startVars, assetVars, seqVars, applyVars, feedVars, mirrorVars>>
    \/ IpcSchedulerCall /\ UNCHANGED <<storeVars, fireVars, ipcVars, intervalVars, phaseVars, presVars, cacheVars, startVars, assetVars, seqVars, applyVars, feedVars, mirrorVars>>
    \/ IpcReadSync /\ UNCHANGED <<storeVars, fireVars, ipcVars, intervalVars, phaseVars, presVars, cacheVars, startVars, assetVars, seqVars, applyVars, feedVars, mirrorVars>>
    \/ IpcRegister /\ UNCHANGED <<storeVars, fireVars, ipcVars, intervalVars, phaseVars, presVars, cacheVars, startVars, assetVars, seqVars, applyVars, feedVars, mirrorVars>>

SpecRace == InitRace /\ [][NextRace]_vars

\* C27: the IPC handler and the reload exclude each other through jobs_lock,
\* so the JobConfig an IPC start registers is the one the index holds at
\* that moment, never one the reload has already replaced.
C27_IpcRegistersCurrent ==
    [][(ipcPc = "read" /\ ipcPc' = "idle")
         => ipcReq.sync = syncIndex[ipcReq.id]]_vars

(***************************************************************************)
(* The start of the supervisor (supervisor.py: run, _start_ipc_server,     *)
(* shutdown).  run() registers the jobs, starts the scheduler, starts the  *)
(* watcher and the IPC thread, then waits for the stop event.              *)
(***************************************************************************)
\* What the file system allows at the socket path.
SocketEnvs == [unlink : BOOLEAN, bind : BOOLEAN]

InitStart ==
    /\ StoreQuiet
    /\ AuxQuietBut("start")
    /\ diskConfig \in {cfg \in Configs : cfg["C"] = NoSync /\ Loadable(cfg)}
    /\ syncIndex = diskConfig
    /\ jobs = [id \in Ids |-> NoJob]
    /\ instances = [id \in Ids |-> 0]
    /\ poolQueue = <<>>
    /\ executing = [id \in Ids |-> 0]
    /\ dropped = [id \in Ids |-> FALSE]
    /\ reloaded = FALSE
    /\ edits = 0
    /\ ipcs = 0
    /\ supOp = NoOp
    /\ ipcAlive = FALSE
    /\ ipcPaused = {}
    /\ runPc = "new"
    /\ hotReload \in BOOLEAN
    /\ socketFile \in {"absent", "stale"}
    /\ socketEnv \in SocketEnvs
    /\ schedulerRunning = FALSE
    /\ serveThread = "none"
    /\ startFired = {}

\* run(): _register_all_syncs.
RunRegister ==
    /\ runPc = "new"
    /\ runPc' = "registered"
    /\ jobs' = [id \in Ids |->
                  IF syncIndex[id] = NoSync THEN NoJob
                  ELSE register_sync_job(syncIndex[id], FALSE, NoJob)]
    /\ UNCHANGED <<syncIndex, diskConfig, instances, poolQueue, executing, dropped,
                   reloaded, edits, ipcs, supOp, ipcVars, hotReload, socketFile,
                   socketEnv, schedulerRunning, serveThread, startFired>>

\* run(): self._scheduler.start().
RunSchedulerStart ==
    /\ runPc = "registered"
    /\ runPc' = "scheduling"
    /\ schedulerRunning' = TRUE
    /\ UNCHANGED <<supVars, ipcVars, hotReload, socketFile, socketEnv, serveThread,
                   startFired>>

\* run(): the signal handlers, the watcher when hot_reload, and
\* _start_ipc_server: an existing socket file is unlinked, an OSError of the
\* unlink is passed over, and the thread running _serve is started.
RunStartIpc ==
    /\ runPc = "scheduling"
    /\ runPc' = "waiting"
    /\ socketFile' = IF socketFile = "stale" /\ socketEnv.unlink THEN "absent"
                     ELSE socketFile
    /\ serveThread' = "binding"
    /\ ipcAlive' = TRUE
    /\ UNCHANGED <<supVars, ipcPaused, hotReload, socketEnv, schedulerRunning,
                   startFired>>

\* _serve: server.bind; an OSError is logged and the thread returns.  A bind
\* that succeeds after the stop event leaves the accept loop at once.
ServeBind ==
    /\ serveThread = "binding"
    /\ IF socketFile = "absent" /\ socketEnv.bind
       THEN /\ socketFile' = "bound"
            /\ serveThread' = IF runPc = "stopped" THEN "returned" ELSE "listening"
            /\ ipcAlive' = (runPc # "stopped")
       ELSE /\ serveThread' = "returned"
            /\ ipcAlive' = FALSE
            /\ UNCHANGED socketFile
    /\ UNCHANGED <<supVars, ipcPaused, runPc, hotReload, socketEnv, schedulerRunning,
                   startFired>>

\* The watcher thread, started when hot_reload: a change of the sync files
\* is followed by _reload_configuration.
StartReload ==
    /\ runPc = "waiting"
    /\ hotReload
    /\ ~reloaded
    /\ Reload

\* The scheduler thread dispatches a due job.
Dispatch(id) ==
    /\ schedulerRunning
    /\ HasJob(jobs[id]) /\ ~jobs[id].paused /\ jobs[id].next <= 0
    /\ jobs' = [jobs EXCEPT ![id].next = jobs[id].trig]
    /\ startFired' = startFired \cup {id}
    /\ UNCHANGED <<syncIndex, diskConfig, instances, poolQueue, executing, dropped,
                   reloaded, edits, ipcs, supOp, ipcVars, runPc, hotReload, socketFile,
                   socketEnv, schedulerRunning, serveThread>>

\* The stop event is set and run() calls shutdown(): the scheduler is shut
\* down and the socket file of a live IPC thread is unlinked.
Shutdown ==
    /\ runPc = "waiting"
    /\ runPc' = "stopped"
    /\ schedulerRunning' = FALSE
    /\ socketFile' = IF ipcAlive /\ socketFile # "absent" /\ socketEnv.unlink
                     THEN "absent" ELSE socketFile
    /\ serveThread' = IF serveThread = "listening" THEN "returned" ELSE serveThread
    /\ ipcAlive' = (serveThread = "binding")
    /\ UNCHANGED <<supVars, ipcPaused, hotReload, socketEnv, startFired>>

NextStart ==
    \/ RunRegister /\ UNCHANGED <<storeVars, fireVars, intervalVars, phaseVars, presVars, cacheVars, raceVars, assetVars, seqVars, applyVars, feedVars, mirrorVars>>
    \/ RunSchedulerStart /\ UNCHANGED <<storeVars, fireVars, intervalVars, phaseVars, presVars, cacheVars, raceVars, assetVars, seqVars, applyVars, feedVars, mirrorVars>>
    \/ RunStartIpc /\ UNCHANGED <<storeVars, fireVars, intervalVars, phaseVars, presVars, cacheVars, raceVars, assetVars, seqVars, applyVars, feedVars, mirrorVars>>
    \/ ServeBind /\ UNCHANGED <<storeVars, fireVars, intervalVars, phaseVars, presVars, cacheVars, raceVars, assetVars, seqVars, applyVars, feedVars, mirrorVars>>
    \/ \E id \in Ids : \E c \in SyncFiles(id) : EditConfig(id, c) /\ UNCHANGED <<storeVars, fireVars, ipcVars, auxVars>>
    \/ StartReload /\ UNCHANGED <<storeVars, fireVars, ipcVars, auxVars>>
    \/ \E id \in Ids : Dispatch(id) /\ UNCHANGED <<storeVars, fireVars, intervalVars, phaseVars, presVars, cacheVars, raceVars, assetVars, seqVars, applyVars, feedVars, mirrorVars>>
    \/ Shutdown /\ UNCHANGED <<storeVars, fireVars, intervalVars, phaseVars, presVars, cacheVars, raceVars, assetVars, seqVars, applyVars, feedVars, mirrorVars>>

SpecStart == InitStart /\ [][NextStart]_vars

\* C28: when the socket file cannot be unlinked or the socket cannot be
\* bound, the supervisor refuses to start: once _serve has given up, the
\* scheduler dispatches no job.
C28_NoDispatchWithoutIpc ==
    [][(serveThread = "returned" /\ ~ipcAlive) => startFired' = startFired]_vars

(***************************************************************************)
(* The asset endpoints of the web API (web/api.py: upload_asset,           *)
(* delete_asset).  A folder is the sequence of its path parts below the    *)
(* assets directory; <<>> is the assets directory itself.                  *)
(***************************************************************************)
\* The requests of one behaviour.
MaxUploads == 2

ALLOWED_ASSET_EXTENSIONS == {".png", ".jpg", ".jpeg", ".gif", ".webp"}

\* The target_dir query parameter: absent (None), or a path string, given by
\* whether it is absolute and by its parts.
NoTargetDir == [given |-> FALSE, absolute |-> FALSE, parts |-> <<>>]
TargetDir(absolute, parts) == [given |-> TRUE, absolute |-> absolute, parts |-> parts]
TargetDirs ==
    {NoTargetDir,
     TargetDir(FALSE, <<"covers">>),
     TargetDir(FALSE, <<"covers", "night">>),
     TargetDir(FALSE, <<".", "covers">>),
     TargetDir(FALSE, <<"..", "outside">>),
     TargetDir(FALSE, <<".">>),
     TargetDir(TRUE, <<"covers">>)}

\* The uploaded file: its name as stem and suffix, and its contents.
UploadFiles ==
    [stem : {"cover"}, suffix : {".png", ".txt"}, contents : {"empty", "data", "oversize"}]

\* A stored file: its folder and its name; n > 0 is the counter that
\* _unique_asset_path put between stem and suffix.
AssetFile(dir, stem, n, suffix) == [dir |-> dir, stem |-> stem, n |-> n, suffix |-> suffix]

\* The folders the assets directory may hold before the first request.
InitialAssetDirs ==
    {{<<>>}, {<<>>, <<"covers">>}, {<<>>, <<"covers">>, <<"covers", "night">>}}

RECURSIVE cleaned_parts(_)
cleaned_parts(parts) ==
    IF parts = <<>> THEN <<>>
    ELSE IF Head(parts) \in {"", "."} THEN cleaned_parts(Tail(parts))
    ELSE <<Head(parts)>> \o cleaned_parts(Tail(parts))

\* _sanitize_asset_path: status 400 for an absolute path, a path without
\* parts and a path with a `..` part; the cleaned relative path otherwise.
sanitize_asset_path(raw) ==
    LET cleaned == cleaned_parts(raw.parts)
    IN  IF raw.absolute THEN [status |-> 400, path |-> <<>>]
        ELSE IF cleaned = <<>> THEN [status |-> 400, path |-> <<>>]
        ELSE IF \E i \in 1..Len(cleaned) : cleaned[i] = ".."
        THEN [status |-> 400, path |-> <<>>]
        ELSE [status |-> 0, path |-> cleaned]

\* _ensure_allowed_asset and the two size tests of upload_asset.
file_accepted(f) ==
    /\ f.suffix \in ALLOWED_ASSET_EXTENSIONS
    /\ f.contents = "data"

\* destination_dir.mkdir(parents=True, exist_ok=True): the folder and the
\* folders above it exist afterwards.
mkdir_parents(dirs, dir) == dirs \cup {SubSeq(dir, 1, k) : k \in 0..Len(dir)}

\* _unique_asset_path: the first of name, name-1, name-2... that no file
\* of the folder has.
unique_asset_path(files, dir, f) ==
    LET taken(n) == AssetFile(dir, f.stem, n, f.suffix) \in files
        n == CHOOSE k \in 0..Cardinality(files) :
                 ~taken(k) /\ \A j \in 0..(k - 1) : taken(j)
    IN  AssetFile(dir, f.stem, n, f.suffix)

\* upload_asset: the status, the folders and the files after the request.
upload_asset(dirs, files, f, target_dir) ==
    LET rejected(status) == [status |-> status, dirs |-> dirs, files |-> files]
        clean == sanitize_asset_path(target_dir)
        destination_dir == IF target_dir.given THEN clean.path ELSE <<>>
    IN  IF ~file_accepted(f) THEN rejected(400)
        ELSE IF target_dir.given /\ clean.status # 0 THEN rejected(clean.status)
        ELSE [status |-> 201,
              dirs |-> mkdir_parents(dirs, destination_dir),
              files |-> files \cup {unique_asset_path(files, destination_dir, f)}]

AssetRequest(op, status, f, target_dir) ==
    [op |-> op, status |-> status, file |-> f, target_dir |-> target_dir]

InitAssets ==
    /\ StoreQuiet
    /\ SupQuiet
    /\ AuxQuietBut("assets")
    /\ assetDirs \in InitialAssetDirs
    /\ assetFiles = {}
    /\ assetReply = AssetRequest("none", 0, <<>>, NoTargetDir)
    /\ uploads = 0

\* POST /config/assets.
UploadAsset(f, target_dir) ==
    /\ uploads < MaxUploads
    /\ uploads' = uploads + 1
    /\ LET r == upload_asset(assetDirs, assetFiles, f, target_dir)
       IN  /\ assetDirs' = r.dirs
           /\ assetFiles' = r.files
           /\ assetReply' = AssetRequest("upload", r.status, f, target_dir)

\* DELETE /config/assets/{asset_name}: 404 for a path that does not exist,
\* 400 for a folder, the file unlinked otherwise.
DeleteAsset(a) ==
    /\ uploads < MaxUploads
    /\ uploads' = uploads + 1
    /\ assetFiles' = assetFiles \ {a}
    /\ assetReply' = AssetRequest("delete", IF a \in assetFiles THEN 204 ELSE 404,
                                  a, NoTargetDir)
    /\ UNCHANGED assetDirs

DeleteFolder(dir) ==
    /\ uploads < MaxUploads
    /\ uploads' = uploads + 1
    /\ assetReply' = AssetRequest("delete", IF dir \in assetDirs THEN 400 ELSE 404,
                                  dir, NoTargetDir)
    /\ UNCHANGED <<assetDirs, assetFiles>>

NextAssets ==
    \/ \E f \in UploadFiles, target_dir \in TargetDirs :
          /\ UploadAsset(f, target_dir)
          /\ UNCHANGED <<storeVars, supVars, fireVars, ipcVars, intervalVars, phaseVars, presVars, cacheVars, raceVars, startVars, seqVars, applyVars, feedVars, mirrorVars>>
    \/ \E dir \in {<<"covers">>, <<"covers", "night">>}, n \in 0..1 :
          /\ DeleteAsset(AssetFile(dir, "cover", n, ".png"))
          /\ UNCHANGED <<storeVars, supVars, fireVars, ipcVars, intervalVars, phaseVars, presVars, cacheVars, raceVars, startVars, seqVars, applyVars, feedVars, mirrorVars>>
    \/ \E dir \in {<<"covers">>, <<"covers", "night">>} :
          /\ DeleteFolder(dir)
          /\ UNCHANGED <<storeVars, supVars, fireVars, ipcVars, intervalVars, phaseVars, presVars, cacheVars, raceVars, startVars, seqVars, applyVars, feedVars, mirrorVars>>

SpecAssets == InitAssets /\ [][NextAssets]_vars

\* C29: an upload of an acceptable file whose target_dir names a folder that
\* does not exist under the assets directory is answered 404 and creates
\* neither a folder nor a file.
C29_MissingFolderRejected ==
    [][(/\ uploads' = uploads + 1
        /\ assetReply'.op = "upload"
        /\ file_accepted(assetReply'.file)
        /\ assetReply'.target_dir.given
        /\ sanitize_asset_path(assetReply'.target_dir).status = 0
        /\ sanitize_asset_path(assetReply'.target_dir).path \notin assetDirs)
         => (/\ assetReply'.status = 404
             /\ assetDirs' = assetDirs
             /\ assetFiles' = assetFiles)]_vars

(***************************************************************************)
(* Sequential selection of one feature, fire after fire                   *)
(* (playlist_presentation.py: _determine_feature_outcome,                  *)
(* _select_candidate, _select_sequential), restart_policy loop, no group.  *)
(***************************************************************************)
\* The fires of one behaviour of the feature.
MaxSeqFires == 5

\* The candidate lists of the feature: one to three assets, an asset may be
\* listed twice.
SeqCandidates ==
    UNION {[1..n -> {"c0", "c1", "c2"}] : n \in 1..3}

InitSeq ==
    /\ StoreQuiet
    /\ SupQuiet
    /\ AuxQuietBut("sequential")
    /\ seqOptions \in {[values |-> v,
                        options |-> FeatureOptions(TRUE, "sequential", w, "none", 1)] :
                          v \in SeqCandidates, w \in 0..MaxWindow}
    /\ seqState = NewFeatureState
    /\ seqLast = [cursor |-> 0, recent |-> {}, value |-> "none"]
    /\ seqFires = 0

\* One fire resolves the feature: _select_candidate, then last_value and the
\* trimmed history are stored.
SeqFire ==
    /\ seqFires < MaxSeqFires
    /\ LET o == seqOptions.options
           sel == select_candidate(o, seqOptions.values, seqState, {}, "default",
                                   seqFires + 1, 0, 1, "none")
       IN  /\ seqState' = [sel.fs EXCEPT
                              !.last_value = sel.value,
                              !.history = trim_history(Append(sel.fs.history, sel.value),
                                                       o.dedupe_window)]
           /\ seqLast' = [cursor |-> seqState.cursor,
                          recent |-> IF o.dedupe_window > 0
                                     THEN RecentHistory(seqState.history, o.dedupe_window)
                                     ELSE {},
                          value |-> sel.value]
    /\ seqFires' = seqFires + 1
    /\ UNCHANGED seqOptions

NextSeq ==
    SeqFire /\ UNCHANGED <<storeVars, supVars, fireVars, ipcVars, intervalVars, phaseVars, presVars, cacheVars, raceVars, startVars, assetVars, applyVars, feedVars, mirrorVars>>

SpecSeq == InitSeq /\ [][NextSeq]_vars

\* C33: sequential selection, restart policy loop, direction +1, n
\* candidates: when C[cursor mod n] is among the last W entries of history
\* the fire selects C[(cursor+1) mod n], otherwise C[cursor mod n]; the cursor
\* is left behind the selected index, so no candidate is skipped over.
C33_NextSequentialIndex ==
    seqFires > 0 =>
        LET values == seqOptions.values
            n == Len(values)
            at == seqLast.cursor % n
            chosen == IF values[at + 1] \in seqLast.recent THEN (at + 1) % n ELSE at
        IN  /\ seqLast.value = values[chosen + 1]
            /\ seqState.cursor = chosen + 1

(***************************************************************************)
(* The remote updates of a presentation fire (playlist_presentation.py:    *)
(* run from the cover upload on, _handle_failure; supervisor.py: the       *)
(* RunRecord of the fire).  The feature outcomes are the inputs of a fire: *)
(* "none" is an outcome that is not to be applied.                         *)
(***************************************************************************)
\* The fires of one behaviour.
MaxApplyFires == 2

FailureModes == {"skip", "reuse_last", "stop"}

\* _handle_failure: TRUE when the failure is passed over, FALSE for stop.
\* reuse_last without a last_value falls back to skip.
handle_failure(mode, last_value) ==
    IF mode = "reuse_last" /\ last_value # "none" THEN TRUE
    ELSE LET fallen == IF mode = "reuse_last" THEN "skip" ELSE mode
         IN  fallen = "skip"

\* features_state.get(name, {}).get("last_value") at the time of a failure:
\* the value just selected, or nothing when the feature's state lives in
\* groups_state.
failure_last_value(grouped, value) == IF grouped THEN "none" ELSE value

NoApply ==
    [cover |-> "none", title |-> "none", description |-> "none",
     cover_call |-> "none", details_call |-> "none", sent |-> {},
     raised |-> FALSE, status |-> "none", fields |-> {}, stamped |-> FALSE,
     error_logged |-> FALSE, record |-> "none"]

InitApply ==
    /\ StoreQuiet
    /\ SupQuiet
    /\ AuxQuietBut("apply")
    /\ applyOptions \in [cover : FailureModes, title : FailureModes,
                         description : FailureModes, grouped : BOOLEAN]
    /\ applyDetails = [title |-> "none", description |-> "none"]
    /\ applyLast = NoApply
    /\ applyFires = 0

\* run() from the cover upload to its end, for the outcomes c, t and d of
\* cover, title and description and the results of the remote calls; then
\* the RunRecord the supervisor completes the fire with.
ApplyFire(c, t, d, coverOk, detailsOk) ==
    /\ applyFires < MaxApplyFires
    /\ applyFires' = applyFires + 1
    /\ UNCHANGED applyOptions
    /\ LET coverCall == c # "none"
           coverRaised ==
               coverCall /\ ~coverOk
               /\ ~handle_failure(applyOptions.cover,
                                  failure_last_value(applyOptions.grouped, c))
           newTitle == t # "none" /\ t # applyDetails.title
           newDescription == d # "none" /\ d # applyDetails.description
           details_update == (IF newTitle THEN {"name"} ELSE {})
                             \cup (IF newDescription THEN {"description"} ELSE {})
           detailsCall == details_update # {}
           updates_applied == (coverCall /\ coverOk) \/ (detailsCall /\ detailsOk)
           \* the details failure is decided by the title's options, and is
           \* logged, never re-raised, when they say stop
           detailsLogged ==
               detailsCall /\ ~detailsOk
               /\ ~handle_failure(applyOptions.title,
                                  failure_last_value(applyOptions.grouped, t))
           last_detail_state ==
               [title |-> IF newTitle THEN t ELSE applyDetails.title,
                description |-> IF newDescription THEN d ELSE applyDetails.description]
       IN  IF coverRaised
           THEN /\ UNCHANGED applyDetails
                /\ applyLast' = [NoApply EXCEPT
                                    !.cover = c, !.cover_call = "failed",
                                    !.raised = TRUE, !.record = "failed"]
           ELSE /\ applyDetails' = last_detail_state
                /\ applyLast' =
                       [cover |-> c, title |-> t, description |-> d,
                        cover_call |-> IF ~coverCall THEN "none"
                                       ELSE IF coverOk THEN "ok" ELSE "failed",
                        details_call |-> IF ~detailsCall THEN "none"
                                         ELSE IF detailsOk THEN "ok" ELSE "failed",
                        sent |-> details_update,
                        raised |-> FALSE,
                        status |-> IF updates_applied THEN "updated" ELSE "noop",
                        fields |-> IF ~updates_applied THEN {}
                                   ELSE IF details_update # {} THEN details_update
                                   ELSE {"cover"},
                        stamped |-> updates_applied,
                        error_logged |-> detailsLogged,
                        record |-> "success"]

NextApply ==
    \E c \in {"none", "c0"}, t \in {"none", "t0", "t1"}, d \in {"none", "d0", "d1"} :
    \E coverOk \in IF c = "none" THEN {TRUE} ELSE BOOLEAN :
    \E detailsOk \in IF (t = "none" \/ t = applyDetails.title)
                        /\ (d = "none" \/ d = applyDetails.description)
                     THEN {TRUE} ELSE BOOLEAN :
        /\ ApplyFire(c, t, d, coverOk, detailsOk)
        /\ UNCHANGED <<storeVars, supVars, fireVars, ipcVars, intervalVars, phaseVars, presVars, cacheVars, raceVars, startVars, assetVars, seqVars, feedVars, mirrorVars>>

SpecApply == InitApply /\ [][NextApply]_vars

\* The features whose new value the failed or successful details call carried.
DetailsFeatures(sent) ==
    (IF "name" \in sent THEN {"title"} ELSE {})
    \cup (IF "description" \in sent THEN {"description"} ELSE {})

\* C31: when a remote call of a fire fails and the failure_mode of the
\* affected feature is stop, the error is re-raised out of run and the fire's
\* RunRecord is failed, for the cover upload and for the details call alike.
C31_StopReraises ==
    /\ (applyLast.cover_call = "failed" /\ applyOptions.cover = "stop")
           => (applyLast.raised /\ applyLast.record = "failed")
    /\ (applyLast.details_call = "failed"
        /\ \E f \in DetailsFeatures(applyLast.sent) : applyOptions[f] = "stop")
           => (applyLast.raised /\ applyLast.record = "failed")

\* The attributes whose remote update succeeded in the last fire.
Succeeded ==
    (IF applyLast.cover_call = "ok" THEN {"cover"} ELSE {})
    \cup (IF applyLast.details_call = "ok" THEN DetailsFeatures(applyLast.sent) ELSE {})

\* C32: the outcome of a fire is noop iff no remote update succeeded;
\* otherwise it is updated and its fields are exactly the attributes (cover,
\* title, description) whose remote update succeeded in this fire.
C32_OutcomeFields ==
    (applyFires > 0 /\ ~applyLast.raised) =>
        /\ applyLast.status = "noop" <=> Succeeded = {}
        /\ Succeeded # {} =>
               /\ applyLast.status = "updated"
               /\ {IF f = "name" THEN "title" ELSE f : f \in applyLast.fields} = Succeeded

\* C38: when the details call of a fire fails, features.details keeps the
\* title and the description it had before the fire, so that a later fire
\* selecting the same value sends it again.
C38_FailedDetailsKeepRecorded ==
    [][(applyFires' = applyFires + 1 /\ applyLast'.details_call = "failed")
         => applyDetails' = applyDetails]_vars

\* C39: after a reload every id with a scheduled trigger has the trigger
\* built from the schedule of JobIndex[id], also when the new schedule of an
\* updated job was rejected as invalid.
C39_TriggerBuiltFromIndex ==
    supOp.op \in {"reload", "reload_again"} =>
        \A id \in Ids :
            HasJob(jobs[id]) =>
                /\ ValidSchedule(syncIndex[id])
                /\ jobs[id].trig = syncIndex[id].interval

\* What a complete_run(run_id, status, None, error, details) step does to
\* run_history: h is the history before the call, h2 after it, and cut the
\* number of oldest records the closing trim dropped.
CompleteRunFrame(run_id, status, error, details) ==
    LET h == IF data.histKey THEN data.hist ELSE <<>>
        h2 == data'.hist
        matching == {i \in 1..Len(h) : h[i].id = run_id}
        grown == IF matching = {} THEN Len(h) + 1 ELSE Len(h)
        cut == IF grown > RUN_HISTORY_LIMIT THEN grown - RUN_HISTORY_LIMIT ELSE 0
    IN  /\ Len(h2) = grown - cut
        /\ \A j \in 1..Len(h2) :
              LET o == j + cut
              IN  IF o > Len(h)
                  THEN h2[j] = RunRecord(run_id, status, now, now, error, details)
                  ELSE IF o \in matching /\ \A m \in matching : m <= o
                  THEN /\ h2[j].id = h[o].id
                       /\ h2[j].started_at = h[o].started_at
                       /\ h2[j].status = status
                       /\ h2[j].completed_at = now
                       /\ h2[j].error = error
                       /\ h2[j].details = details
                  ELSE h2[j] = h[o]

\* C34: complete_run mutates the youngest record with the run id and no
\* other record; when no record has the id it appends one synthetic record;
\* an error or details of None removes that key from the record; the
\* records that were there keep their relative order.
C34_CompleteRunFrame ==
    [][\A id \in OpIds, c \in Completions :
          CompleteRun(id, c[1], 0, c[2], c[3]) => CompleteRunFrame(id, c[1], c[2], c[3])]_vars

\* Two records share a run id; the younger one was completed, without an
\* error key, and the older one is still running.
C34_Witness ==
    /\ lastOp = "complete_run"
    /\ \E i \in 1..Len(data.hist), j \in 1..Len(data.hist) :
          /\ i < j
          /\ data.hist[i].id = data.hist[j].id
          /\ data.hist[i].status = "running"
          /\ data.hist[j].status = "success"
          /\ data.hist[j].error = "none"
          /\ data.hist[j].details = "none"

\* The Python types of the keys of the mappings a presentation fire stores
\* under its state key: the names of the features and of the groups and the
\* fields of a feature's state are str; an entry of a group's value cache
\* is keyed by the tuple (phase, global_run_count).
StoredKeyTypes(p) == {"str"} \cup {"tuple" : e \in p.cache}

\* The scratch key the presentation state is in state.data: json.dump
\* accepts str keys and raises TypeError on a tuple.
PresentationScratch(p) ==
    IF StoredKeyTypes(p) \subseteq {"str"} THEN "dict" ELSE "tuplekey"

\* C37: every mapping key a presentation fire stores in the job's state is a
\* string, so the save at the end of the fire serializes the state, also
\* with selection.group_key set.
C37_StoredKeysSerialize ==
    presFires > 0 =>
        /\ StoredKeyTypes(pres) \subseteq {"str"}
        /\ JsonSerializable([EmptyData EXCEPT !.scratch = PresentationScratch(pres)])

(***************************************************************************)
(* The jobs that feed the shared playlist cache (supervisor.py:            *)
(* __post_init__, _reload_configuration, _run_sync and the loop header of  *)
(* _refresh_shared_playlist_cache).                                        *)
(***************************************************************************)
\* The edits and fires of one behaviour.
MaxFeedOps == 3

FeedConfig(type) == [interval |-> 1, type |-> type]

\* The contents a sync file may be given.
FeedFiles == {NoSync, FeedConfig("playlist_cache"), FeedConfig("playlist_mirror")}

\* The playlist_cache syncs of a list of syncs or of an index.
CacheSyncs(cfg) == {id \in Ids : cfg[id].type = "playlist_cache"}

NoRefresh == [op |-> "none", id |-> "none", considered |-> {}, indexed |-> {}, feeding |-> {}]

\* __post_init__ and _register_all_syncs on the syncs loaded at start.
InitFeed ==
    /\ StoreQuiet
    /\ SupQuiet
    /\ AuxQuietBut("feed")
    /\ feedDisk \in [Ids -> FeedFiles]
    /\ feedDisk["C"] = NoSync
    /\ feedIndex = feedDisk
    /\ feedJobs = [id \in Ids |-> IF feedDisk[id] = NoSync THEN NoJob
                                  ELSE register_sync_job(feedDisk[id], FALSE, NoJob)]
    /\ feedSyncs = CacheSyncs(feedDisk)
    /\ feedRan = {}
    /\ feedLast = NoRefresh
    /\ feedOps = 0

\* A sync file is written, replaced or deleted.
FeedEdit(id, c) ==
    /\ feedOps < MaxFeedOps
    /\ c # feedDisk[id]
    /\ feedDisk' = [feedDisk EXCEPT ![id] = c]
    /\ feedOps' = feedOps + 1
    /\ UNCHANGED <<feedIndex, feedJobs, feedSyncs, feedRan, feedLast>>

\* _reload_configuration: the index and the jobs follow the new
\* configuration; _playlist_cache_syncs is not assigned.
FeedReload ==
    /\ feedIndex # reload_index(feedIndex, feedDisk)
       \/ feedJobs # reload_jobs(feedIndex, feedDisk, feedJobs)
    /\ feedIndex' = reload_index(feedIndex, feedDisk)
    /\ feedJobs' = reload_jobs(feedIndex, feedDisk, feedJobs)
    /\ feedLast' = [feedLast EXCEPT !.op = "reload"]
    /\ UNCHANGED <<feedDisk, feedSyncs, feedRan, feedOps>>

\* _run_sync of a job of the scheduler: the refresh at its start, the run,
\* the save of the state file and, for a playlist_cache sync, the forced
\* refresh, which reads the state files of _playlist_cache_syncs.
FeedFire(id) ==
    /\ feedOps < MaxFeedOps
    /\ HasJob(feedJobs[id])
    /\ feedIndex[id] # NoSync
    /\ feedOps' = feedOps + 1
    /\ feedRan' = feedRan \cup {id}
    /\ feedLast' = [op |-> IF feedIndex[id].type = "playlist_cache"
                           THEN "refresh_forced" ELSE "refresh",
                    id |-> id,
                    considered |-> feedSyncs,
                    indexed |-> CacheSyncs(feedIndex),
                    feeding |-> IF feedIndex[id].type = "playlist_cache"
                                THEN feedSyncs \cap feedRan'
                                ELSE feedSyncs \cap feedRan]
    /\ UNCHANGED <<feedDisk, feedIndex, feedJobs, feedSyncs>>

NextFeed ==
    \/ \E id \in Ids, c \in FeedFiles :
          FeedEdit(id, c) /\ UNCHANGED <<storeVars, supVars, fireVars, ipcVars, intervalVars, phaseVars, presVars, cacheVars, raceVars, startVars, assetVars, seqVars, applyVars, mirrorVars>>
    \/ FeedReload /\ UNCHANGED <<storeVars, supVars, fireVars, ipcVars, intervalVars, phaseVars, presVars, cacheVars, raceVars, startVars, assetVars, seqVars, applyVars, mirrorVars>>
    \/ \E id \in Ids :
          FeedFire(id) /\ UNCHANGED <<storeVars, supVars, fireVars, ipcVars, intervalVars, phaseVars, presVars, cacheVars, raceVars, startVars, assetVars, seqVars, applyVars, mirrorVars>>

SpecFeed == InitFeed /\ [][NextFeed]_vars

\* C35: at every refresh the state files considered are exactly those of the
\* playlist_cache jobs of the current JobIndex: a playlist_cache job added
\* by a hot reload feeds the shared cache once it has run.
C35_RefreshReadsIndexedCaches ==
    feedLast.op \in {"refresh", "refresh_forced"} =>
        /\ feedLast.considered = feedLast.indexed
        /\ (feedLast.op = "refresh_forced" => feedLast.id \in feedLast.feeding)

(***************************************************************************)
(* The fires of a playlist-mirror job with two targets                     *)
(* (playlist_mirror.py: run, _filter_new_tracks, _sync_target; state.py:   *)
(* set_last_processed_track_id).                                           *)
(***************************************************************************)
\* The fires and the source changes of one behaviour.
MaxMirrorOps == 4

MirrorTracks == {1, 2, 3}
MirrorTargets == {1, 2}

\* The position of a track in a list, 0 when it is not there
\* (source_track_ids.index raising ValueError).
IndexOf(seq, t) ==
    IF \E i \in 1..Len(seq) : seq[i] = t
    THEN CHOOSE i \in 1..Len(seq) : seq[i] = t /\ \A j \in 1..(i - 1) : seq[j] # t
    ELSE 0

Reversed(seq) == [i \in 1..Len(seq) |-> seq[Len(seq) + 1 - i]]

\* _filter_new_tracks: the tracks after the cursor, oldest first; all the
\* tracks when there is no cursor or the cursor is not in the list.
filter_new_tracks(source_track_ids, cursor, direction) ==
    LET index == IndexOf(source_track_ids, cursor)
    IN  IF cursor = 0
        THEN IF direction = "newest" THEN Reversed(source_track_ids) ELSE source_track_ids
        ELSE IF index = 0 THEN source_track_ids
        ELSE IF direction = "newest"
        THEN Reversed(SubSeq(source_track_ids, 1, index - 1))
        ELSE SubSeq(source_track_ids, index + 1, Len(source_track_ids))

\* _sync_target, the list handed to add_tracks: without a cursor and with
\* options.deduplicate the tracks the target has are left out.
tracks_to_add(tracks_to_process, deduplicate, cursor, existing) ==
    IF deduplicate /\ cursor = 0
    THEN SelectSeq(tracks_to_process, LAMBDA t : t \notin existing)
    ELSE tracks_to_process

\* The tracks a target playlist holds: the targets start empty.
Existing(adds, k) == {t \in MirrorTracks : adds[k][t] > 0}

\* add_tracks on one target.
add_tracks(adds, k, tracks) ==
    [adds EXCEPT ![k] = [t \in MirrorTracks |->
        IF \E i \in 1..Len(tracks) : tracks[i] = t THEN @[t] + 1 ELSE @[t]]]

\* The loop over the targets up to the one whose call is rate limited
\* (limit = 0: none is).
RECURSIVE sync_targets(_, _, _, _, _, _)
sync_targets(adds, k, limit, tracks_to_process, deduplicate, cursor) ==
    IF k > Cardinality(MirrorTargets) \/ k = limit THEN adds
    ELSE sync_targets(
             add_tracks(adds, k,
                        tracks_to_add(tracks_to_process, deduplicate, cursor,
                                      Existing(adds, k))),
             k + 1, limit, tracks_to_process, deduplicate, cursor)

NoMirrorFire == [status |-> "none", processed |-> <<>>]

InitMirror ==
    /\ StoreQuiet
    /\ SupQuiet
    /\ AuxQuietBut("mirror")
    /\ mirrorOptions \in [deduplicate : BOOLEAN, scan_direction : {"oldest", "newest"}]
    /\ mirrorSource \in {<<>>, <<1>>, <<1, 2>>}
    /\ mirrorCursor = 0
    /\ mirrorAdds = [k \in MirrorTargets |-> [t \in MirrorTracks |-> 0]]
    /\ mirrorLast = NoMirrorFire
    /\ mirrorOps = 0

\* run() when _collect_source_tracks or _resolve_targets is rate limited:
\* the summary says so and nothing else changes.
MirrorLimitedEarly ==
    /\ mirrorOps < MaxMirrorOps
    /\ mirrorOps' = mirrorOps + 1
    /\ mirrorLast' = [status |-> "rate_limited", processed |-> <<>>]
    /\ UNCHANGED <<mirrorOptions, mirrorSource, mirrorCursor, mirrorAdds>>

\* run(): limit is the target whose _sync_target is rate limited, 0 when
\* none is.
MirrorFire(limit) ==
    /\ mirrorOps < MaxMirrorOps
    /\ mirrorOps' = mirrorOps + 1
    /\ UNCHANGED <<mirrorOptions, mirrorSource>>
    /\ LET tracks_to_process ==
               filter_new_tracks(mirrorSource, mirrorCursor, mirrorOptions.scan_direction)
           synced == sync_targets(mirrorAdds, 1, limit, tracks_to_process,
                                  mirrorOptions.deduplicate, mirrorCursor)
           cursor_value == IF mirrorOptions.scan_direction = "newest"
                           THEN mirrorSource[1] ELSE mirrorSource[Len(mirrorSource)]
       IN  IF mirrorSource = <<>>
           THEN /\ mirrorLast' = [status |-> "idle", processed |-> <<>>]
                /\ UNCHANGED <<mirrorCursor, mirrorAdds>>
           ELSE IF tracks_to_process = <<>>
           THEN /\ mirrorLast' = [status |-> "up_to_date", processed |-> <<>>]
                /\ mirrorCursor' = cursor_value
                /\ UNCHANGED mirrorAdds
           ELSE IF limit # 0
           THEN /\ mirrorLast' = [status |-> "rate_limited", processed |-> tracks_to_process]
                /\ mirrorAdds' = synced
                /\ UNCHANGED mirrorCursor
           ELSE /\ mirrorLast' = [status |-> IF synced # mirrorAdds THEN "success" ELSE "noop",
                                  processed |-> tracks_to_process]
                /\ mirrorAdds' = synced
                /\ mirrorCursor' = cursor_value

\* A track is added to the source: it is the newest one.
MirrorSourceAdd(t) ==
    /\ mirrorOps < MaxMirrorOps
    /\ \A i \in 1..Len(mirrorSource) : mirrorSource[i] # t
    /\ mirrorOps' = mirrorOps + 1
    /\ mirrorSource' = IF mirrorOptions.scan_direction = "newest"
                       THEN <<t>> \o mirrorSource ELSE Append(mirrorSource, t)
    /\ UNCHANGED <<mirrorOptions, mirrorCursor, mirrorAdds, mirrorLast>>

\* A track is removed from the source.
MirrorSourceRemove(t) ==
    /\ mirrorOps < MaxMirrorOps
    /\ \E i \in 1..Len(mirrorSource) : mirrorSource[i] = t
    /\ mirrorOps' = mirrorOps + 1
    /\ mirrorSource' = SelectSeq(mirrorSource, LAMBDA x : x # t)
    /\ UNCHANGED <<mirrorOptions, mirrorCursor, mirrorAdds, mirrorLast>>

NextMirror ==
    \/ MirrorLimitedEarly /\ UNCHANGED <<storeVars, supVars, fireVars, ipcVars, intervalVars, phaseVars, presVars, cacheVars, raceVars, startVars, assetVars, seqVars, applyVars, feedVars>>
    \/ \E limit \in 0..Cardinality(MirrorTargets) :
          MirrorFire(limit) /\ UNCHANGED <<storeVars, supVars, fireVars, ipcVars, intervalVars, phaseVars, presVars, cacheVars, raceVars, startVars, assetVars, seqVars, applyVars, feedVars>>
    \/ \E t \in MirrorTracks :
          MirrorSourceAdd(t) /\ UNCHANGED <<storeVars, supVars, fireVars, ipcVars, intervalVars, phaseVars, presVars, cacheVars, raceVars, startVars, assetVars, seqVars, applyVars, feedVars>>
    \/ \E t \in MirrorTracks :
          MirrorSourceRemove(t) /\ UNCHANGED <<storeVars, supVars, fireVars, ipcVars, intervalVars, phaseVars, presVars, cacheVars, raceVars, startVars, assetVars, seqVars, applyVars, feedVars>>

SpecMirror == InitMirror /\ [][NextMirror]_vars

\* C40: across the fires of a playlist-mirror job, also those ended by a
\* rate limit after some of the targets were synced and those whose stored
\* cursor is no longer in the source, each source track is added to a target
\* at most once.
C40_AddedAtMostOnce ==
    \A k \in MirrorTargets : \A t \in MirrorTracks : mirrorAdds[k][t] <= 1

====
